---- MODULE Spec2Model ----
(***************************************************************************)
(* A model of the screen-capture / OCR card-recognition pipeline of the    *)
(* MT2 companion (src-tauri/src/ocr and src-tauri/src/commands/ocr.rs).    *)
(*                                                                         *)
(* i32 values are TLC integers in MinI32..MaxI32.  A u32 value is a record *)
(* [top, low] with value top * 2^31 + low, so that the whole u32 range is  *)
(* representable and `as i32` is the two's-complement reinterpretation.    *)
(* Confidences that the program keeps as f64 in [0,1] are kept exactly, in *)
(* thousandths (0.68 is 680).                                              *)
(***************************************************************************)
EXTENDS Integers, Sequences, FiniteSets, TLC

VARIABLES
    \* ---- the display / capture backend and the build -------------------
    screens,          \* what Screen::all() yields: [status, displays]
    capture_area_ok,  \* per capture call: does capture_area + from_raw succeed
    overflow_checks,  \* build profile: TRUE when integer overflow panics
    \* ---- capture_region on one region -----------------------------------
    region,           \* the argument of capture_region
    cap_result,       \* its outcome
    \* ---- capture_multiple_regions ----------------------------------------
    regions,          \* the argument slice
    results,          \* what the call produced: [status, results]
    \* ---- the matcher ------------------------------------------------------
    fuzzy,            \* SkimMatcherV2::fuzzy_match: pattern -> choice -> score
    card_names,       \* the corpus of a CardMatcher: Seq of [card_id, card_name]
    min_score,        \* CardMatcher.min_score
    ocr_text,         \* the argument of find_best_match
    best_match,       \* its result (NotCalled before the call)
    \* ---- confidence fusion -------------------------------------------------
    fusion_in,        \* <<ocr_confidence, match_score>>
    fusion_out,       \* calculate_overall_confidence of it, in thousandths
    \* ---- the detection pipeline ---------------------------------------------
    config,           \* OcrState.config, the shared CardDetectionOptions
    ocr_engine,       \* what Tesseract reads in each slot: Seq of [ok, text, confidence]
    db,               \* what get_card_names_from_db yielded: [ok, names]
    pipeline,         \* the OcrPipeline under construction / constructed
    run,              \* what detect_cards did: [status, capture_results, slots, result]
    response,         \* what detect_cards_on_screen returned
    \* ---- calibration ----------------------------------------------------------
    report,           \* what calibrate_regions returned: [status, err, report]
    calibration,      \* what calibrate_ocr_regions returned
    screen_size,      \* what get_primary_screen_dimensions returned
    \* ---- the commands on the shared state --------------------------------------
    lock,             \* OcrState.config's mutex: 0 when free, else the call holding it
    calls,            \* the command calls in flight: Seq of [cmd, arg, pc, snapshot, result]
    last_write,       \* the last write to the layout: [kind, regions]
    \* ---- thresholding and preprocessing -----------------------------------------
    image,            \* a grayscale image: [width, height, pixels]
    threshold_args,   \* [threshold, block_size, c]
    thresholded,      \* [by, image]: the thresholding applied and its result
    prep_in,          \* preprocess_for_ocr's input: [width, height, config, memory_ok]
    prep_out,         \* its outcome
    \* ---- calls of pure functions -------------------------------------------------
    point,            \* the argument (px, py) of CaptureRegion::contains
    contained,        \* what contains answered
    card_list,        \* the argument of CardDetectionResult::new
    built,            \* the CardDetectionResult constructed
    all_matches,      \* what find_all_matches / match_results returned
    diagnostic,       \* what test_ocr_region returned
    \* ---- position of the call under check ---------------------------------
    pc                \* "ready" before the call, "done" after it

envVars == <<screens, capture_area_ok, overflow_checks>>
oneVars == <<region, cap_result>>
multiVars == <<regions, results>>
matchVars == <<fuzzy, card_names, min_score, ocr_text, best_match>>
fusionVars == <<fusion_in, fusion_out>>
detectVars == <<config, ocr_engine, db, pipeline, run, response>>
calibVars == <<report, calibration, screen_size>>
cmdVars == <<lock, calls, last_write>>
imageVars == <<image, threshold_args, thresholded, prep_in, prep_out>>
pureVars == <<point, contained, card_list, built, all_matches, diagnostic>>
vars == <<envVars, oneVars, multiVars, matchVars, fusionVars, detectVars, calibVars, pureVars, cmdVars,
          imageVars, pc>>

----------------------------------------------------------------------------
(* Machine integers *)

MaxI32 == 2147483647
MinI32 == -MaxI32 - 1

U32(top, low) == [top |-> top, low |-> low]
U32Zero == U32(0, 0)
U32Max == U32(1, MaxI32)

\* `w as i32`
AsI32(u) == IF u.top = 0 THEN u.low ELSE u.low + MinI32

\* `w > 0` on a u32
U32Positive(u) == u.top = 1 \/ u.low > 0

\* does a + b leave the i32 range
AddOverflows(a, b) ==
    \/ a > 0 /\ b > 0 /\ a > MaxI32 - b
    \/ a < 0 /\ b < 0 /\ a < MinI32 - b

\* a + b modulo 2^32, as an i32 (what the release profile computes)
WrappingAdd(a, b) ==
    IF a > 0 /\ b > 0 /\ a > MaxI32 - b THEN (a + MinI32) + (b + MinI32)
    ELSE IF a < 0 /\ b < 0 /\ a < MinI32 - b THEN (a + MaxI32 + 1) + (b + MaxI32 + 1)
    ELSE a + b

----------------------------------------------------------------------------
(* Region model: capture.rs *)

CaptureRegion(x, y, width, height) == [x |-> x, y |-> y, width |-> width, height |-> height]

is_valid(r) == U32Positive(r.width) /\ U32Positive(r.height)

\* `p < a + extent as i32`, the upper-bound test of CaptureRegion::contains: TRUE or FALSE,
\* or a panic where the sum overflows in a build with overflow checks
below_far_edge(p, a, extent, checks) ==
    IF AddOverflows(a, AsI32(extent)) /\ checks THEN "panic"
    ELSE IF p < WrappingAdd(a, AsI32(extent)) THEN "true" ELSE "false"

\* CaptureRegion::contains; `&&` evaluates its right operand only when the left one holds.
contains(r, px, py, checks) ==
    IF ~(px >= r.x) THEN "false"
    ELSE IF below_far_edge(px, r.x, r.width, checks) # "true"
    THEN below_far_edge(px, r.x, r.width, checks)
    ELSE IF ~(py >= r.y) THEN "false"
    ELSE below_far_edge(py, r.y, r.height, checks)

\* CaptureResult: an image of the given size, a CaptureError, or a panic of
\* the calling thread.
Image(width, height) == [tag |-> "Image", width |-> width, height |-> height]
CaptureErr(e) == [tag |-> e, width |-> U32Zero, height |-> U32Zero]
Panic == [tag |-> "panic", width |-> U32Zero, height |-> U32Zero]
NoResult == [tag |-> "none", width |-> U32Zero, height |-> U32Zero]

CaptureErrors == {"NoScreensAvailable", "RegionOutOfBounds", "InvalidRegion", "CaptureFailed"}

\* The backend part of capture_region: capture_area, then ImageBuffer::from_raw.
CaptureArea(r, ok) ==
    IF ok THEN Image(r.width, r.height) ELSE CaptureErr("CaptureFailed")

\* The `y + height > screen_height` disjunct and what follows it.
BoundsCheckY(r, sh, ok, checks) ==
    LET h == AsI32(r.height) IN
    IF AddOverflows(r.y, h) /\ checks THEN Panic
    ELSE IF WrappingAdd(r.y, h) > sh THEN CaptureErr("RegionOutOfBounds")
    ELSE CaptureArea(r, ok)

\* The `x + width > screen_width` disjunct and what follows it.
BoundsCheckX(r, sw, sh, ok, checks) ==
    LET w == AsI32(r.width) IN
    IF AddOverflows(r.x, w) /\ checks THEN Panic
    ELSE IF WrappingAdd(r.x, w) > sw THEN CaptureErr("RegionOutOfBounds")
    ELSE BoundsCheckY(r, sh, ok, checks)

capture_region(r, scr, ok, checks) ==
    IF ~is_valid(r) THEN CaptureErr("InvalidRegion")
    ELSE IF scr.status = "error" THEN CaptureErr("CaptureFailed")
    ELSE IF scr.displays = <<>> THEN CaptureErr("NoScreensAvailable")
    ELSE LET sw == scr.displays[1].width
             sh == scr.displays[1].height
         IN  IF r.x < 0 \/ r.y < 0 THEN CaptureErr("RegionOutOfBounds")
             ELSE BoundsCheckX(r, sw, sh, ok, checks)

----------------------------------------------------------------------------
(* Inputs *)

\* Bound on the length of a region list.
MaxRegions == 2

ScreenWidth == 1920
ScreenHeight == 1080

Display == [width |-> ScreenWidth, height |-> ScreenHeight]

ScreenStates ==
    { [status |-> "error", displays |-> <<>>],
      [status |-> "ok", displays |-> <<>>],
      [status |-> "ok", displays |-> <<Display>>] }

XValues == {-1, 0, 1620, 1621, MaxI32}
YValues == {-1, 0, 1020, 1021, MaxI32}
WidthValues == {U32Zero, U32(0, 1), U32(0, 300), U32(1, 0), U32Max}
HeightValues == {U32Zero, U32(0, 1), U32(0, 60), U32(1, 0), U32Max}

AllRegions ==
    { CaptureRegion(x, y, w, h) : x \in XValues, y \in YValues,
                                  w \in WidthValues, h \in HeightValues }


InsideRegion == CaptureRegion(0, 0, U32(0, 300), U32(0, 60))
CornerRegion == CaptureRegion(1620, 1020, U32(0, 300), U32(0, 60))
ZeroWidthRegion == CaptureRegion(0, 0, U32Zero, U32(0, 60))
NegativeRegion == CaptureRegion(-1, 0, U32(0, 300), U32(0, 60))
TooWideRegion == CaptureRegion(1621, 0, U32(0, 300), U32(0, 60))
HugeWidthRegion == CaptureRegion(0, 0, U32Max, U32(0, 60))
FarRightRegion == CaptureRegion(MaxI32, 0, U32(0, 1), U32(0, 1))

\* the regions of the lists: inside the display, on its far corner, invalid,
\* outside it, and two whose bounds test overflows
RegionPool ==
    { InsideRegion, CornerRegion, ZeroWidthRegion, NegativeRegion,
      TooWideRegion, HugeWidthRegion, FarRightRegion }

SeqsUpTo(S, n) == UNION { [1..k -> S] : k \in 0..n }

----------------------------------------------------------------------------
(* capture_multiple_regions, CaptureConfig::capture_all: capture.rs *)

\* regions.iter().map(capture_region).collect(): one result per region, in
\* order.  A panic in one capture_region unwinds the whole call, and the
\* results collected so far are dropped with it.
capture_multiple_regions(regs, scr, oks, checks) ==
    LET each == [i \in 1..Len(regs) |-> capture_region(regs[i], scr, oks[i], checks)]
    IN  IF \E i \in 1..Len(regs) : each[i] = Panic
        THEN [status |-> "panicked", results |-> <<>>]
        ELSE [status |-> "returned", results |-> each]

NotCaptured == [status |-> "none", results |-> <<>>]

----------------------------------------------------------------------------
(* Strings.  The texts and names the model runs on, with what the string   *)
(* operations of the code make of them.                                    *)

\* str::to_lowercase
to_lowercase(s) ==
    CASE s = "Fel" -> "fel"
      [] s = "Fell" -> "fell"
      [] s = "Talos" -> "talos"
      [] s = "Just Cause" -> "just cause"
      [] s = "Guillot\\u{ED}n" -> "guillot\\u{ED}n"
      [] s = "NonExistentCard123" -> "nonexistentcard123"
      [] OTHER -> s

\* str::trim
trim(s) ==
    CASE s = "  " -> ""
      [] OTHER -> s

\* str::len: the length in bytes of the UTF-8 encoding
len(s) ==
    CASE s = "" -> 0
      [] s = "  " -> 2
      [] s = "fel" -> 3
      [] s = "fell" -> 4
      [] s = "talos" -> 5
      [] s = "guillot\\u{ED}n" -> 10
      [] s = "nonexistentcard123" -> 18

\* the number of characters (Unicode scalar values) of a string
CharCount(s) ==
    CASE s = "" -> 0
      [] s = "  " -> 2
      [] s = "fel" -> 3
      [] s = "fell" -> 4
      [] s = "talos" -> 5
      [] s = "guillot\\u{ED}n" -> 9
      [] s = "nonexistentcard123" -> 18

\* str::split_whitespace, collected
split_whitespace(s) ==
    CASE s = "fel" -> <<"fel">>
      [] s = "talos" -> <<"talos">>
      [] s = "just cause" -> <<"just", "cause">>

----------------------------------------------------------------------------
(* Recognition and matching: recognize.rs *)

Some(v) == [some |-> TRUE, v |-> v]
None == [some |-> FALSE, v |-> 0]

min(a, b) == IF a < b THEN a ELSE b

\* calculate_overall_confidence with the two weights exchanged
calculate_overall_confidence_swapped(ocr_confidence, match_score) ==
    ocr_confidence * 6 + match_score * 4

\* CardMatch::calculate_overall_confidence, in thousandths:
\* (ocr_confidence * 0.4 + match_score * 0.6) / 100.0
calculate_overall_confidence(ocr_confidence, match_score) ==
    ocr_confidence * 4 + match_score * 6

CardMatch(card, text, score) ==
    [ card_name |-> card.card_name,
      card_id |-> card.card_id,
      ocr_text |-> text,
      match_score |-> min(score, 100),
      ocr_confidence |-> 0,
      overall_confidence |-> 0 ]

NullMatch ==
    [ card_name |-> "", card_id |-> "", ocr_text |-> "", match_score |-> 0,
      ocr_confidence |-> 0, overall_confidence |-> 0 ]

SomeMatch(m) == [some |-> TRUE, m |-> m]
NoMatch == [some |-> FALSE, m |-> NullMatch]

\* CardMatcher::new without the test for an empty corpus
CardMatcher_new_unchecked(names, minimum) ==
    [ok |-> TRUE, err |-> "", card_names |-> names, min_score |-> minimum]

\* CardMatcher::new
CardMatcher_new(names, minimum) ==
    IF names = <<>>
    THEN [ok |-> FALSE, err |-> "NoCardNamesAvailable", card_names |-> <<>>, min_score |-> minimum]
    ELSE [ok |-> TRUE, err |-> "", card_names |-> names, min_score |-> minimum]

\* `if let Some(score) = fuzzy_match(..) { if score > best_score { .. } }`
Consider(acc, card, text, score) ==
    IF score.some /\ score.v > acc.best_score
    THEN [best_score |-> score.v, best_match |-> SomeMatch(CardMatch(card, text, score.v))]
    ELSE acc

\* `for word in &card_words { .. }`, from word k on
RECURSIVE WordPass(_, _, _, _, _, _)
WordPass(acc, card, text, scores, words, k) ==
    IF k > Len(words) THEN acc
    ELSE CHOOSE rest \in
             { WordPass(next, card, text, scores, words, k + 1) :
                 next \in {Consider(acc, card, text, scores[words[k]])} } : TRUE

\* Is the per-word pass run for this normalized text
ShortText(ocr_normalized) == len(ocr_normalized) < 10

\* The body of `for (card_id, card_name) in &self.card_names`
CardPass(acc, card, text, ocr_normalized, scores) ==
    LET whole == Consider(acc, card, text, scores[to_lowercase(card.card_name)])
    IN  IF ShortText(ocr_normalized)
        THEN WordPass(whole, card, text, scores,
                      split_whitespace(to_lowercase(card.card_name)), 1)
        ELSE whole

RECURSIVE CorpusPass(_, _, _, _, _, _)
CorpusPass(acc, names, text, ocr_normalized, scores, k) ==
    IF k > Len(names) THEN acc
    ELSE CHOOSE rest \in
             { CorpusPass(next, names, text, ocr_normalized, scores, k + 1) :
                 next \in {CardPass(acc, names[k], text, ocr_normalized, scores)} } : TRUE

\* find_best_match with best_score starting at 0 instead of min_score
find_best_match_from_zero(names, minimum, fz, text) ==
    LET ocr_normalized == trim(to_lowercase(text))
    IN  IF ocr_normalized = "" THEN NoMatch
        ELSE CorpusPass([best_score |-> 0, best_match |-> NoMatch],
                        names, text, ocr_normalized, fz[ocr_normalized], 1).best_match

\* CardMatcher::find_best_match.  fz is the fuzzy matcher: fz[pattern][choice]
\* is fuzzy_match(choice, pattern).
find_best_match(names, minimum, fz, text) ==
    LET ocr_normalized == trim(to_lowercase(text))
    IN  IF ocr_normalized = "" THEN NoMatch
        ELSE CorpusPass([best_score |-> minimum, best_match |-> NoMatch],
                        names, text, ocr_normalized, fz[ocr_normalized], 1).best_match

\* `matches.sort_by(..)`: a stable sort, highest key first.  Place m behind the
\* elements of the sorted list whose key is not below its own.
RECURSIVE InsertDescending(_, _, _)
InsertDescending(sorted, m, key) ==
    IF sorted = <<>> THEN <<m>>
    ELSE IF sorted[1][key] >= m[key] THEN <<sorted[1]>> \o InsertDescending(Tail(sorted), m, key)
    ELSE <<m>> \o sorted

RECURSIVE SortDescending(_, _)
SortDescending(list, key) ==
    IF list = <<>> THEN <<>>
    ELSE InsertDescending(SortDescending(SubSeq(list, 1, Len(list) - 1), key),
                          list[Len(list)], key)

\* the loop of match_results, from result k on
RECURSIVE MatchEach(_, _, _, _, _)
MatchEach(names, minimum, fz, ocr_results, k) ==
    IF k > Len(ocr_results) THEN <<>>
    ELSE LET found == find_best_match(names, minimum, fz, ocr_results[k].text)
             rest == MatchEach(names, minimum, fz, ocr_results, k + 1)
         IN  IF found.some
             THEN <<[found.m EXCEPT
                       !.ocr_confidence = ocr_results[k].confidence,
                       !.overall_confidence =
                           calculate_overall_confidence(ocr_results[k].confidence,
                                                        found.m.match_score)]>> \o rest
             ELSE rest

\* CardMatcher::match_results
match_results(names, minimum, fz, ocr_results) ==
    SortDescending(MatchEach(names, minimum, fz, ocr_results, 1), "overall_confidence")

\* the loop of find_all_matches, from card k on; `score as f64 / 100.0` in thousandths
RECURSIVE CollectMatches(_, _, _, _, _)
CollectMatches(names, text, scores, threshold, k) ==
    IF k > Len(names) THEN <<>>
    ELSE LET score == scores[to_lowercase(names[k].card_name)]
             rest == CollectMatches(names, text, scores, threshold, k + 1)
         IN  IF score.some /\ score.v >= threshold
             THEN <<[CardMatch(names[k], text, score.v) EXCEPT
                       !.overall_confidence = score.v * 10]>> \o rest
             ELSE rest

\* CardMatcher::find_all_matches
find_all_matches(names, fz, text, threshold) ==
    LET ocr_normalized == trim(to_lowercase(text))
    IN  IF ocr_normalized = "" THEN <<>>
        ELSE SortDescending(CollectMatches(names, text, fz[ocr_normalized], threshold, 1),
                            "match_score")

----------------------------------------------------------------------------
(* Inputs of the matcher *)

\* Bound on the number of cards of a corpus.
MaxCards == 2

Fel == [card_id |-> "banished_fel", card_name |-> "Fel"]
Talos == [card_id |-> "banished_talos", card_name |-> "Talos"]
JustCause == [card_id |-> "banished_just_cause", card_name |-> "Just Cause"]

CardPool == {Fel, Talos, JustCause}

\* every string fuzzy_match is given as its choice
ChoiceStrings == {"fel", "talos", "just cause", "just", "cause"}

\* the normalized texts fuzzy_match is given as its pattern
Patterns == {"fel", "fell", "talos", "guillot\\u{ED}n", "nonexistentcard123"}

\* Scores of the fuzzy matcher: none, the default threshold, above it, and
\* above 100.
Scores == {None, Some(60), Some(80), Some(150)}

NoScores == [c \in ChoiceStrings |-> None]

\* the matchers that score one pattern freely and nothing else
FuzzyFor(pattern) ==
    { [q \in Patterns |-> IF q = pattern THEN row ELSE NoScores] :
          row \in [ChoiceStrings -> Scores] }

MatchTexts == {"", "  ", "Fel", "Guillot\\u{ED}n", "NonExistentCard123"}

MinScores == {60, 80}

----------------------------------------------------------------------------
(* Preprocessing and the recognition pipeline: preprocess.rs, recognize.rs *)

\* RecognizeConfig::default
DefaultMinConfidence == 60
DefaultMinMatchScore == 60

\* ---- f32 ------------------------------------------------------------------------
\* An f32 is [nan, m, e]: the value m * 2^e with m of at most 24 bits (2^24
\* itself is let through, it stands for 1 * 2^(e+24)).  Signs are not needed:
\* the only negative quantities of this part are scale factors, which are
\* compared with 1.0 and nothing else.
RECURSIVE Doubled(_)
Doubled(k) == IF k = 0 THEN 1 ELSE 2 * Doubled(k - 1)

\* the powers of two of an i32
PowersOfTwo == [k \in 0..30 |-> Doubled(k)]
Pow2(k) == PowersOfTwo[k]

F32(m, e) == [nan |-> FALSE, m |-> m, e |-> e]
NaN == [nan |-> TRUE, m |-> 0, e |-> 0]

\* n / 2^s rounded to the nearest integer, ties to even
RoundShift(n, s) ==
    IF s = 0 THEN n
    ELSE LET q == n \div Pow2(s)
             r == n % Pow2(s)
             half == Pow2(s - 1)
         IN  IF r > half \/ (r = half /\ q % 2 = 1) THEN q + 1 ELSE q

\* how many bits n has beyond 24
RECURSIVE BitsOver24(_)
BitsOver24(n) == IF n < Pow2(24) THEN 0 ELSE 1 + BitsOver24(n \div 2)

\* n * 2^e rounded to an f32
RoundToF32(n, e) == F32(RoundShift(n, BitsOver24(n)), e + BitsOver24(n))

\* `w as f32` of a u32
u32_as_f32(u) ==
    IF u.top = 0 THEN RoundToF32(u.low, 0)
    ELSE F32(Pow2(23) + RoundShift(u.low, 8), 8)

\* a * b.  The mantissa of b has at most two bits in every use here.
f32_mul(a, b) ==
    IF a.nan \/ b.nan THEN NaN ELSE RoundToF32(a.m * b.m, a.e + b.e)

\* `f as u32`: truncated, saturating at u32::MAX, 0 for NaN
f32_as_u32(f) ==
    IF f.nan \/ f.m = 0 THEN U32Zero
    ELSE IF f.e < 0 THEN (IF 0 - f.e > 30 THEN U32Zero ELSE U32(0, f.m \div Pow2(0 - f.e)))
    ELSE IF f.e >= 32 THEN U32Max
    ELSE IF f.e >= 8 /\ f.m >= Pow2(32 - f.e) THEN U32Max
    ELSE IF f.e >= 7 /\ f.m >= Pow2(31 - f.e)
    THEN U32(1, IF f.m = Pow2(31 - f.e) THEN 0 ELSE (f.m - Pow2(31 - f.e)) * Pow2(f.e))
    ELSE U32(0, f.m * Pow2(f.e))

\* `f > 1.0`
f32_gt_one(f) ==
    /\ ~f.nan
    /\ IF f.e >= 0 THEN f.m >= 2 \/ (f.m = 1 /\ f.e >= 1)
       ELSE 0 - f.e <= 30 /\ f.m > Pow2(0 - f.e)

\* `f != 1.0`, which holds of a NaN
f32_ne_one(f) ==
    \/ f.nan
    \/ IF f.e > 0 THEN TRUE
       ELSE 0 - f.e > 30 \/ f.m # Pow2(0 - f.e)

\* ---- thresholding ----------------------------------------------------------------
\* A GrayImage is [width, height, pixels], pixels[y][x] for y in 1..height and
\* x in 1..width.
GrayImage(width, height, pixels) == [width |-> width, height |-> height, pixels |-> pixels]

\* apply_threshold
apply_threshold(img, threshold) ==
    GrayImage(img.width, img.height,
              [y \in 1..img.height |->
                 [x \in 1..img.width |-> IF img.pixels[y][x] > threshold THEN 255 ELSE 0]])

\* the pixels of the block around (x, y) that lie in the image
Neighbourhood(img, x, y, half_block) ==
    { p \in ((x - half_block)..(x + half_block)) \X ((y - half_block)..(y + half_block)) :
        p[1] >= 1 /\ p[1] <= img.width /\ p[2] >= 1 /\ p[2] <= img.height }

RECURSIVE SumPixels(_, _)
SumPixels(img, ps) ==
    IF ps = {} THEN 0
    ELSE LET p == CHOOSE q \in ps : TRUE
         IN  img.pixels[p[2]][p[1]] + SumPixels(img, ps \ {p})

\* the new value of pixel (x, y) in apply_adaptive_threshold
AdaptivePixel(img, x, y, half_block, c) ==
    LET block == Neighbourhood(img, x, y, half_block)
        count == Cardinality(block)
        mean == IF count > 0 THEN SumPixels(img, block) \div count ELSE 128
        threshold_value == mean - c
    IN  IF img.pixels[y][x] > threshold_value THEN 255 ELSE 0

\* apply_adaptive_threshold
apply_adaptive_threshold(img, block_size, c) ==
    IF block_size = 0 \/ block_size % 2 = 0 THEN img
    ELSE GrayImage(img.width, img.height,
                   [y \in 1..img.height |->
                      [x \in 1..img.width |-> AdaptivePixel(img, x, y, block_size \div 2, c)]])

\* ---- preprocess.rs ---------------------------------------------------------------
\* PreprocessConfig
PreprocessConfig(threshold, use_adaptive_threshold, adaptive_block_size, adaptive_c, denoise, invert, scale_factor, contrast_factor) ==
    [ threshold |-> threshold, use_adaptive_threshold |-> use_adaptive_threshold,
      adaptive_block_size |-> adaptive_block_size, adaptive_c |-> adaptive_c,
      denoise |-> denoise, invert |-> invert, scale_factor |-> scale_factor,
      contrast_factor |-> contrast_factor ]

\* PreprocessConfig::default: scale_factor 2.0, contrast_factor 1.5
PreprocessConfig_default ==
    PreprocessConfig(127, TRUE, 11, 2, TRUE, FALSE, F32(1, 1), F32(3, 0 - 1))

\* image::imageops::resize to new_width x new_height: a buffer of about 2^64
\* bytes cannot be made (the allocation panics); one beyond 2^31 bytes is
\* made when the allocator grants it.
resize(new_width, new_height, memory_ok) ==
    IF new_width = U32Max /\ new_height = U32Max THEN "panicked"
    ELSE IF /\ new_width.top = 0 /\ new_height.top = 0
            /\ (new_height.low = 0 \/ new_width.low <= MaxI32 \div new_height.low)
    THEN "Ok"
    ELSE IF memory_ok THEN "Ok" ELSE "panicked"

\* `(n as f32 * factor) as u32`, each step on the value of the one before
scale_dimension(n, factor) ==
    CHOOSE u \in { f32_as_u32(product) :
                     product \in { f32_mul(a, factor) : a \in {u32_as_f32(n)} } } : TRUE

\* upscale: the dimensions of its result, and whether the resize was made.
\* `factor <= 1.0` is false of a NaN.
upscale(width, height, factor, memory_ok) ==
    IF ~factor.nan /\ ~f32_gt_one(factor)
    THEN [status |-> "Ok", width |-> width, height |-> height, stage |-> <<>>]
    ELSE CHOOSE scaled \in
             { [ status |-> resize(new_width, new_height, memory_ok),
                 width |-> new_width, height |-> new_height, stage |-> <<"resize">> ] :
                   new_width \in {scale_dimension(width, factor)},
                   new_height \in {scale_dimension(height, factor)} } : TRUE

NotPreprocessed ==
    [ok |-> FALSE, err |-> "none", empty |-> TRUE, status |-> "none",
     width |-> U32Zero, height |-> U32Zero, stages |-> <<>>]

\* steps 1 and 2 of preprocess_for_ocr: to_grayscale, then enhance_contrast
\* `if config.contrast_factor != 1.0`
first_stages(preprocess_config) ==
    <<"grayscale">> \o
    (IF f32_ne_one(preprocess_config.contrast_factor) THEN <<"contrast">> ELSE <<>>)

\* steps 4 to 6 with the threshold applied before the denoising
last_stages_threshold_first(preprocess_config) ==
    (IF preprocess_config.use_adaptive_threshold
     THEN <<"adaptive_threshold">> ELSE <<"fixed_threshold">>) \o
    (IF preprocess_config.denoise THEN <<"gaussian_blur", "median_filter">> ELSE <<>>) \o
    (IF preprocess_config.invert THEN <<"invert">> ELSE <<>>)

\* steps 4 to 6 of preprocess_for_ocr: apply_gaussian_blur and apply_median_filter
\* `if config.denoise`, one of the two thresholdings, invert `if config.invert`
last_stages(preprocess_config) ==
    (IF preprocess_config.denoise THEN <<"gaussian_blur", "median_filter">> ELSE <<>>) \o
    (IF preprocess_config.use_adaptive_threshold
     THEN <<"adaptive_threshold">> ELSE <<"fixed_threshold">>) \o
    (IF preprocess_config.invert THEN <<"invert">> ELSE <<>>)

\* preprocess_for_ocr: EmptyImage when a dimension of the input is zero;
\* otherwise grayscale, contrast, upscale (for scale_factor > 1.0), denoise,
\* threshold and invert, of which only upscale changes the dimensions.  Of
\* the grayscale image the result keeps the dimensions and whether it is
\* empty; stages lists the steps that were completed, in the order they ran.
preprocess_for_ocr(img, preprocess_config, memory_ok) ==
    IF img.width = U32Zero \/ img.height = U32Zero
    THEN [NotPreprocessed EXCEPT !.err = "EmptyImage", !.status = "Err"]
    ELSE CHOOSE processed \in
             { IF scaled.status = "panicked"
               THEN [NotPreprocessed EXCEPT !.err = "panic", !.status = "panicked",
                                            !.stages = first_stages(preprocess_config)]
               ELSE [ ok |-> TRUE, err |-> "", empty |-> FALSE, status |-> "Ok",
                      width |-> scaled.width, height |-> scaled.height,
                      stages |-> first_stages(preprocess_config) \o scaled.stage
                                   \o last_stages(preprocess_config) ] :
                 scaled \in { IF f32_gt_one(preprocess_config.scale_factor)
                              THEN [upscale(img.width, img.height,
                                            preprocess_config.scale_factor, memory_ok)
                                    EXCEPT !.stage = <<"upscale">>]
                              ELSE [status |-> "Ok", width |-> img.width,
                                    height |-> img.height, stage |-> <<>>] } } : TRUE

\* OcrResult::new
OcrResult_new(text, confidence, min_confidence) ==
    [ text |-> trim(text),
      confidence |-> confidence,
      is_confident |-> confidence >= min_confidence ]

NullOcrResult == [text |-> "", confidence |-> 0, is_confident |-> FALSE]

\* OcrEngine::recognize.  read is what Tesseract makes of the image.
recognize(gray, read, min_confidence) ==
    IF gray.empty THEN [ok |-> FALSE, err |-> "InvalidImage", result |-> NullOcrResult]
    ELSE IF ~read.ok THEN [ok |-> FALSE, err |-> "TesseractError", result |-> NullOcrResult]
    ELSE [ok |-> TRUE, err |-> "",
          result |-> OcrResult_new(read.text, read.confidence, min_confidence)]

\* RecognitionPipeline::with_config: OcrEngine::with_config never fails, so
\* the outcome is that of CardMatcher::new.
RecognitionPipeline_with_config(names, recognize_config) ==
    CardMatcher_new(names, recognize_config.min_match_score)

\* RecognitionPipeline::process: Err of the engine, Ok(None) when the text
\* is not confident, otherwise Ok(find_best_match(text)).
process(matcher, min_confidence, fz, gray, read) ==
    LET ocr_result == recognize(gray, read, min_confidence)
    IN  IF ~ocr_result.ok THEN [ok |-> FALSE, err |-> ocr_result.err, found |-> NoMatch]
        ELSE IF ~ocr_result.result.is_confident THEN [ok |-> TRUE, err |-> "", found |-> NoMatch]
        ELSE [ok |-> TRUE, err |-> "",
              found |-> find_best_match(matcher.card_names, matcher.min_score, fz,
                                        ocr_result.result.text)]

----------------------------------------------------------------------------
(* The orchestrator: ocr/mod.rs *)

\* CardDetectionOptions.  min_overall_confidence is in thousandths.  The preprocess
\* settings, the debug flag and the debug path are those of
\* CardDetectionOptions::default: no command sets the first and the last.
\* The capture configuration of the commands always comes from
\* CaptureConfig::default, whose screen dimensions are 1920 x 1080, and none
\* of the commands changes them.
CardDetectionOptions(regs, min_confidence, min_match_score, min_overall) ==
    [ capture |-> [regions |-> regs, screen_width |-> ScreenWidth,
                   screen_height |-> ScreenHeight],
      preprocess |-> PreprocessConfig_default,
      recognize |-> [min_confidence |-> min_confidence, min_match_score |-> min_match_score],
      save_debug_images |-> FALSE,
      debug_image_path |-> None,
      min_overall_confidence |-> min_overall ]

DetectedCard(card_match, reg) ==
    [ card_id |-> card_match.card_id,
      card_name |-> card_match.card_name,
      region |-> reg,
      ocr_confidence |-> card_match.ocr_confidence,
      match_score |-> card_match.match_score,
      overall_confidence |-> card_match.overall_confidence,
      raw_ocr_text |-> card_match.ocr_text ]

RECURSIVE SumOverall(_, _)
SumOverall(cards, k) ==
    IF k > Len(cards) THEN 0 ELSE cards[k].overall_confidence + SumOverall(cards, k + 1)

\* CardDetectionResult::new that reports the sum of the confidences as their average
CardDetectionResult_new_summed(detected_cards) ==
    [ detected_cards |-> detected_cards,
      average_confidence |-> [num |-> SumOverall(detected_cards, 1), den |-> 1],
      success |-> TRUE,
      error_message |-> None ]

\* CardDetectionResult::new.  The average is kept as the exact fraction
\* num / den of thousandths.
CardDetectionResult_new(detected_cards) ==
    [ detected_cards |-> detected_cards,
      average_confidence |-> IF detected_cards = <<>> THEN [num |-> 0, den |-> 1]
                             ELSE [num |-> SumOverall(detected_cards, 1),
                                   den |-> Len(detected_cards)],
      success |-> TRUE,
      error_message |-> None ]

\* CardDetectionResult::failed
CardDetectionResult_failed(error) ==
    [ detected_cards |-> <<>>,
      average_confidence |-> [num |-> 0, den |-> 1],
      success |-> FALSE,
      error_message |-> Some(error) ]

\* CardDetectionResult::is_empty
is_empty(result) == result.detected_cards = <<>>

EmptyResult ==
    [ detected_cards |-> <<>>, average_confidence |-> [num |-> 0, den |-> 1],
      success |-> FALSE, error_message |-> None ]

\* OcrPipeline::new
OcrPipeline_new(names, options) ==
    LET made == RecognitionPipeline_with_config(names, options.recognize)
    IN  [ ok |-> made.ok, err |-> made.err, recognition_pipeline |-> made,
          options |-> options, card_names |-> names ]

NoPipeline ==
    [ ok |-> FALSE, err |-> "none", recognition_pipeline |-> CardMatcher_new(<<>>, 0),
      options |-> CardDetectionOptions(<<>>, 0, 0, 0), card_names |-> <<>> ]

\* the region lookup taken one slot too far
region_one_past(regs, i) ==
    IF i + 1 \in 1..Len(regs) THEN regs[i + 1] ELSE CaptureRegion(0, 0, U32Zero, U32Zero)

\* `get_regions().get(i).copied().unwrap_or_else(|| CaptureRegion::new(0, 0, 0, 0))`
\* with the slot counted from 1
region_of_slot(regs, i) ==
    IF i \in 1..Len(regs) THEN regs[i] ELSE CaptureRegion(0, 0, U32Zero, U32Zero)

\* One turn of `for (i, capture_result) in capture_results.into_iter().enumerate()`.
\* acc is [detected_cards, slots]: slots records the slot of each pushed card.
detect_slot(acc, pl, capture_result, fz, read, i) ==
    IF capture_result.tag # "Image" THEN acc
    ELSE CHOOSE pushed \in
      { IF ~gray_image.ok THEN acc
        ELSE CHOOSE kept \in
          { IF processed.ok /\ processed.found.some
               /\ processed.found.m.overall_confidence >= pl.options.min_overall_confidence
            THEN [ detected_cards |->
                       Append(acc.detected_cards,
                              DetectedCard(processed.found.m,
                                           region_of_slot(pl.options.capture.regions, i))),
                   slots |-> Append(acc.slots, i) ]
            ELSE acc :
              processed \in {process(pl.recognition_pipeline,
                                     pl.options.recognize.min_confidence,
                                     fz, gray_image, read)} } : TRUE :
          gray_image \in {preprocess_for_ocr(capture_result, pl.options.preprocess, TRUE)} }
      : TRUE

RECURSIVE detect_loop(_, _, _, _, _, _)
detect_loop(acc, pl, capture_results, fz, reads, i) ==
    IF i > Len(capture_results) THEN acc
    ELSE CHOOSE rest \in
             { detect_loop(next, pl, capture_results, fz, reads, i + 1) :
                 next \in {detect_slot(acc, pl, capture_results[i], fz, reads[i], i)} } : TRUE

NotRun ==
    [status |-> "none", capture_results |-> <<>>, slots |-> <<>>, result |-> EmptyResult]

\* OcrPipeline::detect_cards: capture_all, then the loop over its results,
\* then Ok(CardDetectionResult::new(detected_cards)).  A panic of capture_all
\* unwinds the call.
detect_cards(pl, scr, oks, checks, fz, reads) ==
    CHOOSE ran \in
        { IF captured.status = "panicked"
          THEN [NotRun EXCEPT !.status = "panicked"]
          ELSE CHOOSE returned \in
                   { [ status |-> "returned",
                       capture_results |-> captured.results,
                       slots |-> acc.slots,
                       result |-> CardDetectionResult_new(acc.detected_cards) ] :
                       acc \in {detect_loop([detected_cards |-> <<>>, slots |-> <<>>], pl,
                                            captured.results, fz, reads, 1)} } : TRUE :
            captured \in {capture_multiple_regions(pl.options.capture.regions, scr, oks,
                                                   checks)} } : TRUE

----------------------------------------------------------------------------
(* The command: commands/ocr.rs *)

\* CardDetectionResponse
CardDetectionResponse(detected_cards, confidence, success, error, details) ==
    [ detected_cards |-> detected_cards, confidence |-> confidence,
      success |-> success, error |-> error, details |-> details ]

FailedResponse(message) ==
    CardDetectionResponse(<<>>, [num |-> 0, den |-> 1], FALSE, Some(message), <<>>)

\* From<DetectedCard> for DetectedCardInfo
DetectedCardInfo(card) ==
    [ card_id |-> card.card_id, card_name |-> card.card_name,
      confidence |-> card.overall_confidence, ocr_confidence |-> card.ocr_confidence,
      match_score |-> card.match_score, raw_text |-> card.raw_ocr_text,
      region |-> card.region ]

\* ---- test_ocr_region (feature "ocr") ----------------------------------------------------------
\* `for (card_id, card_name) in &card_names`, from card k on: best is None or
\* Some([card, score]), replaced only by a strictly higher raw score
RECURSIVE BestRawScore(_, _, _, _)
BestRawScore(best, names, scores, k) ==
    IF k > Len(names) THEN best
    ELSE LET score == scores[to_lowercase(names[k].card_name)]
         IN  BestRawScore(IF score.some /\ (~best.some \/ score.v > best.v.score)
                          THEN Some([card |-> names[k], score |-> score.v])
                          ELSE best,
                          names, scores, k + 1)

NoDiagnosis ==
    [ status |-> "Err",
      info |-> [ card_id |-> "", card_name |-> "", confidence |-> 0, ocr_confidence |-> 0,
                 match_score |-> 0, raw_text |-> "",
                 region |-> CaptureRegion(0, 0, U32Zero, U32Zero) ] ]

\* what test_ocr_region returns once the text is read
Diagnose(fetched, r, ocr_result, fz) ==
    LET best == BestRawScore(None, fetched.names, fz[to_lowercase(ocr_result.text)], 1)
    IN  IF ~best.some THEN NoDiagnosis
        ELSE [ status |-> "Ok",
               info |-> [ card_id |-> best.v.card.card_id,
                          card_name |-> best.v.card.card_name,
                          confidence |-> best.v.score * 10,
                          ocr_confidence |-> ocr_result.confidence,
                          match_score |-> min(best.v.score, 100),
                          raw_text |-> ocr_result.text,
                          region |-> r ] ]

\* test_ocr_region: every `?` returns the error as a string
test_ocr_region(fetched, r, scr, ok, checks, read, fz) ==
    IF ~fetched.ok THEN NoDiagnosis
    ELSE LET rgba_image == capture_region(r, scr, ok, checks) IN
         IF rgba_image.tag = "panic" THEN [NoDiagnosis EXCEPT !.status = "panicked"]
         ELSE IF rgba_image.tag # "Image" THEN NoDiagnosis
         ELSE LET gray_image == preprocess_for_ocr(rgba_image, PreprocessConfig_default, TRUE) IN
              IF gray_image.status = "panicked" THEN [NoDiagnosis EXCEPT !.status = "panicked"]
              ELSE IF ~gray_image.ok THEN NoDiagnosis
              ELSE LET ocr_result == recognize(gray_image, read, DefaultMinConfidence) IN
                   IF ~ocr_result.ok THEN NoDiagnosis
                   ELSE Diagnose(fetched, r, ocr_result.result, fz)

NoResponse == [tag |-> "none", body |-> FailedResponse("")]

NotRead == [ok |-> FALSE, names |-> <<>>]

\* the `match pipeline.detect_cards()` of detect_cards_on_screen
detected_response(pl, detected) ==
    CHOOSE outcome \in
        { IF ran.status = "panicked"
          THEN [response |-> [tag |-> "panic", body |-> FailedResponse("")],
                pipeline |-> pl, run |-> ran]
          ELSE [response |->
                    [tag |-> "Ok",
                     body |-> CardDetectionResponse(
                         [k \in 1..Len(ran.result.detected_cards) |->
                              ran.result.detected_cards[k].card_name],
                         ran.result.average_confidence,
                         ran.result.success,
                         ran.result.error_message,
                         [k \in 1..Len(ran.result.detected_cards) |->
                              DetectedCardInfo(ran.result.detected_cards[k])])],
                pipeline |-> pl, run |-> ran] : ran \in {detected} } : TRUE

\* detect_cards_on_screen.  fetched is what get_card_names_from_db yields:
\* [ok, names].  The outcome is the command's return value together with the
\* pipeline it built and the run it made.
detect_cards_on_screen(fetched, cfg, scr, oks, checks, fz, reads) ==
    IF ~fetched.ok
    THEN [response |-> [tag |-> "Err", body |-> FailedResponse("")],
          pipeline |-> NoPipeline, run |-> NotRun]
    ELSE IF fetched.names = <<>>
    THEN [response |-> [tag |-> "Ok", body |-> FailedResponse("No cards found in database")],
          pipeline |-> NoPipeline, run |-> NotRun]
    ELSE CHOOSE outcome \in
             { IF ~pl.ok
               THEN [response |->
                         [tag |-> "Ok", body |-> FailedResponse("Failed to initialize OCR")],
                     pipeline |-> pl, run |-> NotRun]
               ELSE detected_response(pl, detect_cards(pl, scr, oks, checks, fz, reads)) :
                 pl \in {OcrPipeline_new(fetched.names, cfg)} } : TRUE

----------------------------------------------------------------------------
(* Inputs of the detection pipeline *)

\* the configured regions: two that capture, one invalid, one whose bounds
\* test overflows
DetectRegionPool == {InsideRegion, CornerRegion, ZeroWidthRegion, FarRightRegion}

\* min_overall_confidence: 0.0, 0.5 and the default 0.6
MinOverallValues == {0, 500, 600}

\* what Tesseract reads in a slot: an engine error, and "Fell" at confidence
\* 85 and at 50
Reads ==
    { [ok |-> FALSE, text |-> "", confidence |-> 0],
      [ok |-> TRUE, text |-> "Fell", confidence |-> 85],
      [ok |-> TRUE, text |-> "Fell", confidence |-> 50] }

Corpus == <<Fel, Talos>>

\* the fuzzy matchers of the detection runs: "fell" against "fel" scores
\* freely, and nothing else scores
DetectFuzzy ==
    { [q \in Patterns |->
          IF q = "fell" THEN [c \in ChoiceStrings |-> IF c = "fel" THEN sc ELSE None]
          ELSE NoScores] : sc \in {None, Some(60), Some(80)} }

Configs ==
    { CardDetectionOptions(regs, DefaultMinConfidence, DefaultMinMatchScore, m) :
          regs \in SeqsUpTo(DetectRegionPool, MaxRegions), m \in MinOverallValues }

----------------------------------------------------------------------------
(* Default layout and calibration: capture.rs, ocr/mod.rs, commands/ocr.rs *)

\* the base layout with the centre card listed first
BaseRegions_center_first ==
    << CaptureRegion(810, 200, U32(0, 300), U32(0, 60)),
       CaptureRegion(350, 200, U32(0, 300), U32(0, 60)),
       CaptureRegion(1270, 200, U32(0, 300), U32(0, 60)),
       CaptureRegion(810, 500, U32(0, 300), U32(0, 60)) >>

\* the hand-tuned layout for 1920 x 1080
BaseRegions ==
    << CaptureRegion(350, 200, U32(0, 300), U32(0, 60)),
       CaptureRegion(810, 200, U32(0, 300), U32(0, 60)),
       CaptureRegion(1270, 200, U32(0, 300), U32(0, 60)),
       CaptureRegion(810, 500, U32(0, 300), U32(0, 60)) >>

\* `(v as f32 * (dim as f32 / reference)) as i32`: the product truncated.
\* On the screen sizes of the model the f32 result is the exact quotient's.
Scale(v, dim, reference) == (v * dim) \div reference

\* get_default_card_regions that returns the base layout unscaled
get_default_card_regions_unscaled(screen_width, screen_height) ==
    BaseRegions

\* get_default_card_regions
get_default_card_regions(screen_width, screen_height) ==
    [ k \in 1..Len(BaseRegions) |->
        CaptureRegion(Scale(BaseRegions[k].x, screen_width, ScreenWidth),
                      Scale(BaseRegions[k].y, screen_height, ScreenHeight),
                      U32(0, Scale(BaseRegions[k].width.low, screen_width, ScreenWidth)),
                      U32(0, Scale(BaseRegions[k].height.low, screen_height, ScreenHeight))) ]

\* get_primary_screen_dimensions
get_primary_screen_dimensions(scr) ==
    IF scr.status = "error" THEN [ok |-> FALSE, err |-> "CaptureFailed", width |-> 0, height |-> 0]
    ELSE IF scr.displays = <<>>
    THEN [ok |-> FALSE, err |-> "NoScreensAvailable", width |-> 0, height |-> 0]
    ELSE [ok |-> TRUE, err |-> "", width |-> scr.displays[1].width,
          height |-> scr.displays[1].height]

CalibrationReport(dimensions, regions_tested, successful_captures, failed_captures, recommended) ==
    [ screen_dimensions |-> dimensions,
      regions_tested |-> regions_tested,
      successful_captures |-> successful_captures,
      failed_captures |-> failed_captures,
      recommended_regions |-> recommended ]

NullReport == CalibrationReport(<<0, 0>>, 0, 0, 0, <<>>)

\* CalibrationReport::is_successful without the test that something was captured
is_successful_vacuously(rep) ==
    rep.failed_captures = 0

\* CalibrationReport::is_successful
is_successful(rep) ==
    rep.failed_captures = 0 /\ rep.successful_captures > 0

\* CalibrationReport::success_rate, as the exact fraction num / den
success_rate(rep) ==
    LET total == rep.successful_captures + rep.failed_captures
    IN  IF total = 0 THEN [num |-> 0, den |-> 1]
        ELSE [num |-> rep.successful_captures * 100, den |-> total]

\* The counting loop of calibrate_regions, from region k on.
RECURSIVE count_captures(_, _, _, _, _, _)
count_captures(acc, regs, scr, oks, checks, k) ==
    IF k > Len(regs) THEN acc
    ELSE CHOOSE counted \in
             { IF outcome = Panic THEN [acc EXCEPT !.panicked = TRUE]
               ELSE IF outcome.tag = "Image"
               THEN count_captures([acc EXCEPT !.successful = @ + 1], regs, scr, oks, checks,
                                   k + 1)
               ELSE count_captures([acc EXCEPT !.failed = @ + 1], regs, scr, oks, checks,
                                   k + 1) :
                 outcome \in {capture_region(regs[k], scr, oks[k], checks)} } : TRUE

NotCalibrated == [status |-> "none", err |-> "", report |-> NullReport]

\* calibrate_regions: the screen dimensions first (an error of which is
\* returned), then one capture per configured region, then the report.
calibrate_regions(options, scr, oks, checks) ==
    LET dimensions == get_primary_screen_dimensions(scr) IN
    IF ~dimensions.ok THEN [status |-> "Err", err |-> dimensions.err, report |-> NullReport]
    ELSE LET regs == options.capture.regions IN
         CHOOSE made \in
             { IF counted.panicked
               THEN [status |-> "panicked", err |-> "", report |-> NullReport]
               ELSE [ status |-> "Ok", err |-> "",
                      report |-> CalibrationReport(
                          <<dimensions.width, dimensions.height>>, Len(regs),
                          counted.successful, counted.failed,
                          get_default_card_regions(dimensions.width, dimensions.height)) ] :
                 counted \in {count_captures([successful |-> 0, failed |-> 0,
                                              panicked |-> FALSE],
                                             regs, scr, oks, checks, 1)} } : TRUE

\* CalibrationResult
CalibrationResult(success, message, screen_width, screen_height, recommended, rate) ==
    [ success |-> success, message |-> message, screen_width |-> screen_width,
      screen_height |-> screen_height, recommended_regions |-> recommended,
      success_rate |-> rate ]

NoCalibration ==
    [tag |-> "none", body |-> CalibrationResult(FALSE, "", 0, 0, <<>>, [num |-> 0, den |-> 1])]

\* From<CalibrationReport> for CalibrationResult
CalibrationResult_from(rep) ==
    CalibrationResult(is_successful(rep),
                      IF is_successful(rep) THEN "Calibration successful!"
                      ELSE "Calibration partial.",
                      rep.screen_dimensions[1], rep.screen_dimensions[2],
                      rep.recommended_regions, success_rate(rep))

\* calibrate_ocr_regions on a copy cfg of the shared configuration
calibrate_ocr_regions(cfg, scr, oks, checks) ==
    CHOOSE returned \in
        { IF outcome.status = "panicked" THEN [NoCalibration EXCEPT !.tag = "panic"]
          ELSE IF outcome.status = "Err"
          THEN [tag |-> "Ok",
                body |-> CalibrationResult(FALSE, "Calibration failed:", 0, 0, <<>>,
                                           [num |-> 0, den |-> 1])]
          ELSE [tag |-> "Ok", body |-> CalibrationResult_from(outcome.report)] :
            outcome \in {calibrate_regions(cfg, scr, oks, checks)} } : TRUE

\* a second display size
SmallDisplay == [width |-> 1280, height |-> 720]

CalibrationScreens == ScreenStates \cup {[status |-> "ok", displays |-> <<SmallDisplay>>]}

----------------------------------------------------------------------------
(* The commands on the shared configuration: commands/ocr.rs *)

DefaultMinOverallConfidence == 600

\* CaptureConfig::default: the layout for 1920 x 1080, whatever the display is
CaptureConfig_default ==
    [ regions |-> get_default_card_regions(ScreenWidth, ScreenHeight),
      screen_width |-> ScreenWidth,
      screen_height |-> ScreenHeight ]

\* CardDetectionOptions::default
CardDetectionOptions_default ==
    [ capture |-> CaptureConfig_default,
      preprocess |-> PreprocessConfig_default,
      recognize |-> [min_confidence |-> DefaultMinConfidence,
                     min_match_score |-> DefaultMinMatchScore],
      save_debug_images |-> FALSE,
      debug_image_path |-> None,
      min_overall_confidence |-> DefaultMinOverallConfidence ]

\* OcrState::new: the configuration behind the mutex
OcrState_new == CardDetectionOptions_default

\* CaptureConfig::update_regions that keeps the old regions in front
update_regions_appending(capture, regs) ==
    [capture EXCEPT !.regions = @ \o regs]

\* CaptureConfig::update_regions
update_regions(capture, regs) ==
    [capture EXCEPT !.regions = regs]

\* CaptureConfig::get_regions
get_regions(capture) == capture.regions

\* From<CaptureRegion> for CaptureRegionInfo
CaptureRegionInfo_from(reg) ==
    [x |-> reg.x, y |-> reg.y, width |-> reg.width, height |-> reg.height]

SetRegionsResult(success, regions_set) ==
    [success |-> success, regions_set |-> regions_set]

\* The body of set_capture_regions under the lock: the request's regions,
\* rebuilt with CaptureRegion::new, replace the configured ones.
set_capture_regions(cfg, request) ==
    LET rebuilt == [k \in 1..Len(request) |->
                       CaptureRegion(request[k].x, request[k].y, request[k].width,
                                     request[k].height)]
    IN  [ config |-> [cfg EXCEPT !.capture = update_regions(@, rebuilt)],
          result |-> [tag |-> "Ok", body |-> SetRegionsResult(TRUE, Len(rebuilt))] ]

\* The body of get_capture_regions under the lock.
get_capture_regions(cfg) ==
    [ tag |-> "Ok",
      body |-> [k \in 1..Len(get_regions(cfg.capture)) |->
                   CaptureRegionInfo_from(get_regions(cfg.capture)[k])] ]

\* reset_capture_regions that takes the layout of a 1920 x 1080 screen
reset_capture_regions_for_base_screen(cfg, scr) ==
    LET dimensions == get_primary_screen_dimensions(scr) IN
    IF dimensions.ok
    THEN [ config |-> [cfg EXCEPT !.capture = update_regions(@, BaseRegions)],
           result |-> [tag |-> "Ok", body |-> SetRegionsResult(TRUE, Len(BaseRegions))] ]
    ELSE [ config |-> cfg,
           result |-> [tag |-> "Ok", body |-> SetRegionsResult(FALSE, 0)] ]

\* The body of reset_capture_regions under the lock.
reset_capture_regions(cfg, scr) ==
    LET dimensions == get_primary_screen_dimensions(scr) IN
    IF dimensions.ok
    THEN LET default_regions == get_default_card_regions(dimensions.width, dimensions.height)
         IN  [ config |-> [cfg EXCEPT !.capture = update_regions(@, default_regions)],
               result |-> [tag |-> "Ok",
                           body |-> SetRegionsResult(TRUE, Len(default_regions))] ]
    ELSE [ config |-> cfg,
           result |-> [tag |-> "Ok", body |-> SetRegionsResult(FALSE, 0)] ]

\* f64::clamp, on thousandths
clamp(v, lo, hi) == IF v < lo THEN lo ELSE IF v > hi THEN hi ELSE v

\* update_ocr_config that stores the value as it came
update_ocr_config_unclamped(cfg, min_confidence, save_debug) ==
    [ config |-> [cfg EXCEPT
                    !.min_overall_confidence =
                        IF min_confidence.some THEN min_confidence.v ELSE @,
                    !.save_debug_images = IF save_debug.some THEN save_debug.v ELSE @],
      result |-> [tag |-> "Ok", body |-> TRUE] ]

\* update_ocr_config that starts from the default options
update_ocr_config_from_default(cfg, min_confidence, save_debug) ==
    [ config |-> [CardDetectionOptions_default EXCEPT
                    !.min_overall_confidence =
                        IF min_confidence.some THEN clamp(min_confidence.v, 0, 1000)
                        ELSE cfg.min_overall_confidence,
                    !.save_debug_images =
                        IF save_debug.some THEN save_debug.v ELSE cfg.save_debug_images],
      result |-> [tag |-> "Ok", body |-> TRUE] ]

\* The body of update_ocr_config under the lock.  min_confidence is the
\* Option<f64> of the request, in thousandths, save_debug its Option<bool>.
update_ocr_config(cfg, min_confidence, save_debug) ==
    [ config |-> [cfg EXCEPT
                    !.min_overall_confidence =
                        IF min_confidence.some THEN clamp(min_confidence.v, 0, 1000) ELSE @,
                    !.save_debug_images = IF save_debug.some THEN save_debug.v ELSE @],
      result |-> [tag |-> "Ok", body |-> TRUE] ]

\* ---- the calls ------------------------------------------------------------------
MaxCalls == 2

Commands ==
    { "detect_cards_on_screen", "calibrate_ocr_regions", "set_capture_regions",
      "get_capture_regions", "reset_capture_regions", "update_ocr_config" }

\* the requests of set_capture_regions
SetRequests ==
    { <<>>,
      <<CaptureRegionInfo_from(InsideRegion)>>,
      <<CaptureRegionInfo_from(CornerRegion), CaptureRegionInfo_from(InsideRegion)>>,
      <<CaptureRegionInfo_from(FarRightRegion)>> }

\* the min_confidence of update_ocr_config: absent, below 0, inside, above 1
ConfidenceRequests == {None, Some(0 - 250), Some(750), Some(1500)}

\* the None of an Option<bool>
NoFlag == [some |-> FALSE, v |-> FALSE]

\* the requests of update_ocr_config
UpdateRequests ==
    [min_confidence : ConfidenceRequests, save_debug : {NoFlag}] \cup
    { [min_confidence |-> Some(750), save_debug |-> Some(TRUE)],
      [min_confidence |-> None, save_debug |-> Some(TRUE)],
      [min_confidence |-> None, save_debug |-> Some(FALSE)] }

NoArgument == <<>>

Arguments(cmd) ==
    CASE cmd = "set_capture_regions" -> SetRequests
      [] cmd = "update_ocr_config" -> UpdateRequests
      [] OTHER -> {NoArgument}

\* A call of a command: where it stands (called, locked, capturing, returned,
\* or panicked), the copy of the configuration it took, its return value, and
\* what the shared state was when its body ran under the lock.
NewCall(cmd, arg) ==
    [ cmd |-> cmd, arg |-> arg, pc |-> "called", snapshot |-> OcrState_new,
      result |-> [tag |-> "none"],
      before |-> OcrState_new, after |-> OcrState_new,
      seen |-> [kind |-> "none", regions |-> <<>>] ]

\* the slots of the layouts of this part: the default layout has four
LayoutSlots == 1..(IF Len(BaseRegions) > MaxRegions THEN Len(BaseRegions) ELSE MaxRegions)

----------------------------------------------------------------------------
(* Inputs of thresholding and preprocessing *)

MaxSide == 2

\* black, a mid gray and white
PixelValues == {0, 128, 255}

\* the images of up to side x side pixels
GrayImages(side) ==
    UNION { { GrayImage(w, h, px) : px \in [1..h -> [1..w -> PixelValues]] } :
              w \in 0..side, h \in 0..side }

\* thresholds: the default and the largest; block sizes: an even one, 3 and
\* the default; bias constants: none and the default
ThresholdArgs ==
    [threshold : {127, 255}, block_size : {2, 3, 11}, c : {0, 2}]

\* widths with and without a 25th bit, heights, and the scale factors NaN,
\* 0.5, 1.0, 1.5, 2.0 and 2^31
ImageWidths == {U32Zero, U32(0, 1), U32(0, 3), U32(0, 300), U32(0, 16777217)}
ImageHeights == {U32Zero, U32(0, 1), U32(0, 60)}
ScaleFactors == {NaN, F32(1, 0 - 1), F32(1, 0), F32(3, 0 - 1), F32(1, 1), F32(1, 31)}

\* contrast factors NaN, 1.0 and 1.5
ContrastFactors == {NaN, F32(1, 0), F32(3, 0 - 1)}

PreprocessConfigs ==
    { PreprocessConfig(127, adaptive, 11, 2, denoise, inverted, factor, contrast) :
          adaptive \in BOOLEAN, denoise \in BOOLEAN, inverted \in BOOLEAN,
          factor \in ScaleFactors, contrast \in ContrastFactors }

----------------------------------------------------------------------------
(* The specifications of the single calls *)

InitEnv ==
    /\ screens \in ScreenStates
    /\ capture_area_ok \in [1..MaxRegions -> BOOLEAN]
    /\ overflow_checks \in BOOLEAN

IdleEnv ==
    /\ screens = [status |-> "ok", displays |-> <<Display>>]
    /\ capture_area_ok = [i \in 1..MaxRegions |-> TRUE]
    /\ overflow_checks = FALSE

IdleOne == region = CaptureRegion(0, 0, U32Zero, U32Zero) /\ cap_result = NoResult
IdleMulti == regions = <<>> /\ results = NotCaptured
IdleMatch ==
    /\ fuzzy = [q \in Patterns |-> NoScores]
    /\ card_names = <<>>
    /\ min_score = 60
    /\ ocr_text = ""
    /\ best_match = NoMatch
IdleFusion == fusion_in = <<0, 0>> /\ fusion_out = 0
IdleDetect ==
    /\ config = CardDetectionOptions(<<>>, DefaultMinConfidence, DefaultMinMatchScore, 600)
    /\ ocr_engine = <<>>
    /\ db = NotRead
    /\ pipeline = NoPipeline
    /\ run = NotRun
    /\ response = NoResponse

NoDimensions == [ok |-> FALSE, err |-> "none", width |-> 0, height |-> 0]

IdleCalib == report = NotCalibrated /\ calibration = NoCalibration /\ screen_size = NoDimensions
IdleCmd == lock = 0 /\ calls = <<>> /\ last_write = [kind |-> "none", regions |-> <<>>]
IdleImage ==
    /\ image = [width |-> 0, height |-> 0, pixels |-> <<>>]
    /\ threshold_args = [threshold |-> 0, block_size |-> 0, c |-> 0]
    /\ thresholded = [by |-> "none", image |-> image]
    /\ prep_in = [width |-> U32Zero, height |-> U32Zero, config |-> PreprocessConfig_default,
                  memory_ok |-> TRUE]
    /\ prep_out = NotPreprocessed
NotBuilt == [by |-> "none", result |-> EmptyResult]
NoMatches == [by |-> "none", matches |-> <<>>]
NotDiagnosed == [NoDiagnosis EXCEPT !.status = "none"]

IdlePure ==
    /\ point = <<0, 0>>
    /\ contained = "none"
    /\ card_list = <<>>
    /\ built = NotBuilt
    /\ all_matches = NoMatches
    /\ diagnostic = NotDiagnosed
IdleRest == IdleCalib /\ IdleCmd /\ IdleImage /\ IdlePure

\* ---- capture_region ------------------------------------------------------
InitCaptureRegion ==
    /\ InitEnv
    /\ region \in AllRegions
    /\ cap_result = NoResult
    /\ IdleMulti /\ IdleMatch /\ IdleFusion /\ IdleDetect /\ IdleRest
    /\ pc = "ready"

CallCaptureRegion ==
    /\ pc = "ready"
    /\ cap_result' = capture_region(region, screens, capture_area_ok[1], overflow_checks)
    /\ pc' = "done"
    /\ UNCHANGED <<envVars, region, multiVars, matchVars, fusionVars, detectVars,
                   calibVars, pureVars, cmdVars, imageVars>>

NextCaptureRegion == CallCaptureRegion

SpecCaptureRegion == InitCaptureRegion /\ [][NextCaptureRegion]_vars

\* ---- capture_multiple_regions ----------------------------------------------
InitCapture ==
    /\ InitEnv
    /\ IdleOne
    /\ regions \in SeqsUpTo(RegionPool, MaxRegions)
    /\ results = NotCaptured
    /\ IdleMatch /\ IdleFusion /\ IdleDetect /\ IdleRest
    /\ pc = "ready"

CallCaptureMultipleRegions ==
    /\ pc = "ready"
    /\ results' = capture_multiple_regions(regions, screens, capture_area_ok, overflow_checks)
    /\ pc' = "done"
    /\ UNCHANGED <<envVars, oneVars, regions, matchVars, fusionVars, detectVars,
                   calibVars, pureVars, cmdVars, imageVars>>

NextCapture == CallCaptureMultipleRegions

SpecCapture == InitCapture /\ [][NextCapture]_vars

\* ---- find_best_match -------------------------------------------------------
InitMatch ==
    /\ IdleEnv /\ IdleOne /\ IdleMulti /\ IdleFusion /\ IdleDetect /\ IdleRest
    /\ card_names \in SeqsUpTo(CardPool, MaxCards) \ {<<>>}
    /\ min_score \in MinScores
    /\ ocr_text \in MatchTexts
    /\ fuzzy \in IF trim(to_lowercase(ocr_text)) = ""
                 THEN {[q \in Patterns |-> NoScores]}
                 ELSE FuzzyFor(trim(to_lowercase(ocr_text)))
    /\ best_match = NoMatch
    /\ pc = "ready"

CallFindBestMatch ==
    /\ pc = "ready"
    /\ best_match' = find_best_match(card_names, min_score, fuzzy, ocr_text)
    /\ pc' = "done"
    /\ UNCHANGED <<envVars, oneVars, multiVars, fuzzy, card_names, min_score, ocr_text,
                   fusionVars, detectVars,
                   calibVars, pureVars, cmdVars, imageVars>>

NextMatch == CallFindBestMatch

SpecMatch == InitMatch /\ [][NextMatch]_vars

\* ---- calculate_overall_confidence -------------------------------------------
InitFusion ==
    /\ IdleEnv /\ IdleOne /\ IdleMulti /\ IdleMatch /\ IdleDetect /\ IdleRest
    /\ fusion_in \in (0..100) \X (0..100)
    /\ fusion_out = 0
    /\ pc = "ready"

CallCalculateOverallConfidence ==
    /\ pc = "ready"
    /\ fusion_out' = calculate_overall_confidence(fusion_in[1], fusion_in[2])
    /\ pc' = "done"
    /\ UNCHANGED <<envVars, oneVars, multiVars, matchVars, fusion_in, detectVars,
                   calibVars, pureVars, cmdVars, imageVars>>

NextFusion == CallCalculateOverallConfidence

SpecFusion == InitFusion /\ [][NextFusion]_vars

\* ---- the detection pipeline ---------------------------------------------------
\* The shared configuration is one that set_capture_regions and
\* update_ocr_config can leave behind; the corpus is read when the call is made.
InitDetect ==
    /\ screens = [status |-> "ok", displays |-> <<Display>>]
    /\ capture_area_ok = [i \in 1..MaxRegions |-> TRUE]
    /\ overflow_checks \in BOOLEAN
    /\ IdleOne /\ IdleMulti /\ IdleFusion
    /\ fuzzy \in DetectFuzzy
    /\ card_names = <<>>
    /\ min_score = DefaultMinMatchScore
    /\ ocr_text = ""
    /\ best_match = NoMatch
    /\ config \in Configs
    /\ ocr_engine \in [1..MaxRegions -> Reads]
    /\ db = NotRead
    /\ pipeline = NoPipeline
    /\ run = NotRun
    /\ response = NoResponse
    /\ IdleRest
    /\ pc = "ready"

\* The command detect_cards_on_screen, on whatever the database yields.
CallDetectCardsOnScreen ==
    /\ pc = "ready"
    /\ \E read \in { [ok |-> FALSE, names |-> <<>>], [ok |-> TRUE, names |-> <<>>],
                     [ok |-> TRUE, names |-> Corpus] } :
          LET out == detect_cards_on_screen(read, config, screens, capture_area_ok,
                                            overflow_checks, fuzzy, ocr_engine)
          IN  /\ db' = read
              /\ card_names' = read.names
              /\ pipeline' = out.pipeline
              /\ run' = out.run
              /\ response' = out.response
    /\ pc' = "done"
    /\ UNCHANGED <<envVars, oneVars, multiVars, fuzzy, min_score, ocr_text, best_match,
                   fusionVars, config, ocr_engine,
                   calibVars, pureVars, cmdVars, imageVars>>

\* The library entry: OcrPipeline::new(card_names, options) on a copy of the
\* configuration.
CallOcrPipelineNew ==
    /\ pc = "ready"
    /\ \E names \in {<<>>, Corpus} :
          /\ card_names' = names
          /\ pipeline' = OcrPipeline_new(names, config)
    /\ pc' = IF pipeline'.ok THEN "constructed" ELSE "done"
    /\ UNCHANGED <<envVars, oneVars, multiVars, fuzzy, min_score, ocr_text, best_match,
                   fusionVars, config, ocr_engine, db, run, response,
                   calibVars, pureVars, cmdVars, imageVars>>

\* pipeline.detect_cards()
CallDetectCards ==
    /\ pc = "constructed"
    /\ run' = detect_cards(pipeline, screens, capture_area_ok, overflow_checks,
                           fuzzy, ocr_engine)
    /\ pc' = "done"
    /\ UNCHANGED <<envVars, oneVars, multiVars, matchVars, fusionVars, config, ocr_engine,
                   db, pipeline, response,
                   calibVars, pureVars, cmdVars, imageVars>>

NextDetect == CallDetectCardsOnScreen \/ CallOcrPipelineNew \/ CallDetectCards

SpecDetect == InitDetect /\ [][NextDetect]_vars

\* ---- calibration ---------------------------------------------------------------
InitCalibrate ==
    /\ screens \in CalibrationScreens
    /\ capture_area_ok \in [1..MaxRegions -> BOOLEAN]
    /\ overflow_checks \in BOOLEAN
    /\ IdleOne /\ IdleMulti /\ IdleMatch /\ IdleFusion
    /\ config \in { CardDetectionOptions(regs, DefaultMinConfidence, DefaultMinMatchScore, 600) :
                       regs \in SeqsUpTo(DetectRegionPool, MaxRegions) }
    /\ ocr_engine = <<>>
    /\ db = NotRead
    /\ pipeline = NoPipeline
    /\ run = NotRun
    /\ response = NoResponse
    /\ IdleCalib /\ IdleCmd /\ IdleImage /\ IdlePure
    /\ pc = "ready"

\* The command calibrate_ocr_regions, with the calibrate_regions call it makes.
CallCalibrateOcrRegions ==
    /\ pc = "ready"
    /\ report' = calibrate_regions(config, screens, capture_area_ok, overflow_checks)
    /\ calibration' = calibrate_ocr_regions(config, screens, capture_area_ok, overflow_checks)
    /\ pc' = "done"
    /\ UNCHANGED <<envVars, oneVars, multiVars, matchVars, fusionVars, detectVars, screen_size,
                   pureVars, cmdVars, imageVars>>

NextCalibrate == CallCalibrateOcrRegions

SpecCalibrate == InitCalibrate /\ [][NextCalibrate]_vars

\* ---- the commands on the shared state ----------------------------------------------
\* The state after `app.manage(OcrState::new())`.  The database answers
\* with the corpus and Tesseract reads "Fell" in every slot; none of the
\* regions of this part overflows the bounds test.
InitCommands ==
    /\ screens \in CalibrationScreens
    /\ capture_area_ok = [i \in LayoutSlots |-> TRUE]
    /\ overflow_checks = FALSE
    /\ IdleOne /\ IdleMulti /\ IdleFusion
    /\ fuzzy = CHOOSE f \in DetectFuzzy : f["fell"]["fel"] = Some(80)
    /\ card_names = Corpus
    /\ min_score = DefaultMinMatchScore
    /\ ocr_text = ""
    /\ best_match = NoMatch
    /\ config = OcrState_new
    /\ ocr_engine = [i \in LayoutSlots |-> [ok |-> TRUE, text |-> "Fell", confidence |-> 85]]
    /\ db = [ok |-> TRUE, names |-> Corpus]
    /\ pipeline = NoPipeline
    /\ run = NotRun
    /\ response = NoResponse
    /\ IdleCalib /\ IdleImage /\ IdlePure
    /\ lock = 0
    /\ calls = <<>>
    /\ last_write = [kind |-> "startup", regions |-> <<>>]
    /\ pc = "ready"

commandFrame ==
    <<envVars, oneVars, multiVars, matchVars, fusionVars, ocr_engine, db, pipeline, run,
      response, calibVars, pureVars, imageVars, pc>>

\* The frontend invokes a command.
Invoke ==
    /\ Len(calls) < MaxCalls
    /\ \E cmd \in Commands : \E arg \in Arguments(cmd) :
          calls' = Append(calls, NewCall(cmd, arg))
    /\ UNCHANGED <<config, lock, last_write, commandFrame>>

\* `ocr_state.config.lock()`: the call waits until the mutex is free.
Lock(i) ==
    /\ calls[i].pc = "called"
    /\ lock = 0
    /\ lock' = i
    /\ calls' = [calls EXCEPT ![i].pc = "locked"]
    /\ UNCHANGED <<config, last_write, commandFrame>>

\* `.clone()` of detect_cards_on_screen and calibrate_ocr_regions: the guard
\* is a temporary of the `let config = ...;` statement and is dropped at its
\* end, so the call goes on with its copy and without the lock.
CloneConfig(i) ==
    /\ calls[i].pc = "locked"
    /\ calls[i].cmd \in {"detect_cards_on_screen", "calibrate_ocr_regions"}
    /\ calls' = [calls EXCEPT ![i].pc = "capturing", ![i].snapshot = config,
                              ![i].before = config, ![i].after = config,
                              ![i].seen = last_write]
    /\ lock' = 0
    /\ UNCHANGED <<config, last_write, commandFrame>>

\* where a call stands after its body: a panic unwinds it, and it never returns
AfterBody(out) == IF out.tag = "panic" THEN "panicked" ELSE "returned"

\* the rest of detect_cards_on_screen run on the shared configuration instead of the copy
FinishDetect_on_shared(i) ==
    /\ calls[i].pc = "capturing"
    /\ calls[i].cmd = "detect_cards_on_screen"
    /\ \E out \in {detect_cards_on_screen(db, config, screens, capture_area_ok,
                                    overflow_checks, fuzzy, ocr_engine).response} :
          calls' = [calls EXCEPT ![i].pc = AfterBody(out), ![i].result = out]
    /\ UNCHANGED <<config, lock, last_write, commandFrame>>

\* The rest of detect_cards_on_screen: pipeline and detection on the copy.
FinishDetect(i) ==
    /\ calls[i].pc = "capturing"
    /\ calls[i].cmd = "detect_cards_on_screen"
    /\ \E out \in {detect_cards_on_screen(db, calls[i].snapshot, screens, capture_area_ok,
                                    overflow_checks, fuzzy, ocr_engine).response} :
          calls' = [calls EXCEPT ![i].pc = AfterBody(out), ![i].result = out]
    /\ UNCHANGED <<config, lock, last_write, commandFrame>>

\* The rest of calibrate_ocr_regions: calibrate_regions on the copy.
FinishCalibrate(i) ==
    /\ calls[i].pc = "capturing"
    /\ calls[i].cmd = "calibrate_ocr_regions"
    /\ \E out \in {calibrate_ocr_regions(calls[i].snapshot, screens, capture_area_ok,
                                   overflow_checks)} :
          calls' = [calls EXCEPT ![i].pc = AfterBody(out), ![i].result = out]
    /\ UNCHANGED <<config, lock, last_write, commandFrame>>

\* A command that keeps the guard to its end: body, return value, unlock.
ReturnAndUnlock(i, out, write) ==
    /\ config' = out.config
    /\ calls' = [calls EXCEPT ![i].pc = "returned", ![i].result = out.result,
                              ![i].before = config, ![i].after = out.config,
                              ![i].seen = last_write]
    /\ last_write' = write
    /\ lock' = 0
    /\ UNCHANGED commandFrame

SetCaptureRegions(i) ==
    /\ calls[i].pc = "locked" /\ lock = i
    /\ calls[i].cmd = "set_capture_regions"
    /\ ReturnAndUnlock(i, set_capture_regions(config, calls[i].arg),
                [kind |-> "set", regions |-> calls[i].arg])

GetCaptureRegions(i) ==
    /\ calls[i].pc = "locked" /\ lock = i
    /\ calls[i].cmd = "get_capture_regions"
    /\ ReturnAndUnlock(i, [config |-> config, result |-> get_capture_regions(config)], last_write)

ResetCaptureRegions(i) ==
    /\ calls[i].pc = "locked" /\ lock = i
    /\ calls[i].cmd = "reset_capture_regions"
    /\ LET out == reset_capture_regions(config, screens)
       IN  ReturnAndUnlock(i, out, IF out.result.body.success
                            THEN [kind |-> "reset", regions |-> <<>>]
                            ELSE last_write)

UpdateOcrConfig(i) ==
    /\ calls[i].pc = "locked" /\ lock = i
    /\ calls[i].cmd = "update_ocr_config"
    /\ ReturnAndUnlock(i, update_ocr_config(config, calls[i].arg.min_confidence,
                                            calls[i].arg.save_debug), last_write)

NextCommands ==
    \/ Invoke
    \/ \E i \in 1..Len(calls) :
          \/ Lock(i)
          \/ CloneConfig(i)
          \/ FinishDetect(i)
          \/ FinishCalibrate(i)
          \/ SetCaptureRegions(i)
          \/ GetCaptureRegions(i)
          \/ ResetCaptureRegions(i)
          \/ UpdateOcrConfig(i)

SpecCommands == InitCommands /\ [][NextCommands]_vars

\* The commands after an update_ocr_config that set the threshold to 0.0: every
\* match of a detection run is then kept, each with the region of its slot.
InitSnapshot ==
    /\ screens \in CalibrationScreens
    /\ capture_area_ok = [i \in LayoutSlots |-> TRUE]
    /\ overflow_checks = FALSE
    /\ IdleOne /\ IdleMulti /\ IdleFusion
    /\ fuzzy = CHOOSE f \in DetectFuzzy : f["fell"]["fel"] = Some(80)
    /\ card_names = Corpus
    /\ min_score = DefaultMinMatchScore
    /\ ocr_text = ""
    /\ best_match = NoMatch
    /\ config = update_ocr_config(OcrState_new, Some(0), NoFlag).config
    /\ ocr_engine = [i \in LayoutSlots |-> [ok |-> TRUE, text |-> "Fell", confidence |-> 85]]
    /\ db = [ok |-> TRUE, names |-> Corpus]
    /\ pipeline = NoPipeline
    /\ run = NotRun
    /\ response = NoResponse
    /\ IdleCalib /\ IdleImage /\ IdlePure
    /\ lock = 0
    /\ calls = <<>>
    /\ last_write = [kind |-> "startup", regions |-> <<>>]
    /\ pc = "ready"

SpecSnapshot == InitSnapshot /\ [][NextCommands]_vars

\* The commands in either build profile, each call scheduled fairly: a call that can
\* take a step (the mutex is free for its lock(), or it is past it) eventually does.
InitAnyBuild ==
    /\ screens \in CalibrationScreens
    /\ capture_area_ok = [i \in LayoutSlots |-> TRUE]
    /\ overflow_checks \in BOOLEAN
    /\ IdleOne /\ IdleMulti /\ IdleFusion
    /\ fuzzy = CHOOSE f \in DetectFuzzy : f["fell"]["fel"] = Some(80)
    /\ card_names = Corpus
    /\ min_score = DefaultMinMatchScore
    /\ ocr_text = ""
    /\ best_match = NoMatch
    /\ config = OcrState_new
    /\ ocr_engine = [i \in LayoutSlots |-> [ok |-> TRUE, text |-> "Fell", confidence |-> 85]]
    /\ db = [ok |-> TRUE, names |-> Corpus]
    /\ pipeline = NoPipeline
    /\ run = NotRun
    /\ response = NoResponse
    /\ IdleCalib /\ IdleImage /\ IdlePure
    /\ lock = 0
    /\ calls = <<>>
    /\ last_write = [kind |-> "startup", regions |-> <<>>]
    /\ pc = "ready"

\* the steps of call i
StepOf(i) ==
    /\ i \in 1..Len(calls)
    /\ \/ Lock(i) \/ CloneConfig(i) \/ FinishDetect(i) \/ FinishCalibrate(i)
       \/ SetCaptureRegions(i) \/ GetCaptureRegions(i) \/ ResetCaptureRegions(i)
       \/ UpdateOcrConfig(i)

SpecCommandsFair ==
    InitAnyBuild /\ [][NextCommands]_vars /\ \A i \in 1..MaxCalls : WF_vars(StepOf(i))

\* ---- thresholding ---------------------------------------------------------------------
IdleAll ==
    /\ IdleEnv /\ IdleOne /\ IdleMulti /\ IdleMatch /\ IdleFusion /\ IdleDetect
    /\ IdleCalib /\ IdleCmd /\ IdlePure

InitThreshold ==
    /\ IdleAll
    /\ image \in GrayImages(MaxSide)
    /\ threshold_args \in ThresholdArgs
    /\ thresholded = [by |-> "none", image |-> image]
    /\ prep_in = [width |-> U32Zero, height |-> U32Zero, config |-> PreprocessConfig_default,
                  memory_ok |-> TRUE]
    /\ prep_out = NotPreprocessed
    /\ pc = "ready"

thresholdFrame ==
    <<envVars, oneVars, multiVars, matchVars, fusionVars, detectVars, calibVars, pureVars, cmdVars,
      image, threshold_args, prep_in, prep_out>>

CallApplyThreshold ==
    /\ pc = "ready"
    /\ thresholded' = [by |-> "fixed",
                       image |-> apply_threshold(image, threshold_args.threshold)]
    /\ pc' = "done"
    /\ UNCHANGED thresholdFrame

CallApplyAdaptiveThreshold ==
    /\ pc = "ready"
    /\ thresholded' = [by |-> "adaptive",
                       image |-> apply_adaptive_threshold(image, threshold_args.block_size,
                                                          threshold_args.c)]
    /\ pc' = "done"
    /\ UNCHANGED thresholdFrame

NextThreshold == CallApplyThreshold \/ CallApplyAdaptiveThreshold

SpecThreshold == InitThreshold /\ [][NextThreshold]_vars

\* ---- preprocess_for_ocr -----------------------------------------------------------------
InitPreprocess ==
    /\ IdleAll
    /\ image = [width |-> 0, height |-> 0, pixels |-> <<>>]
    /\ threshold_args = [threshold |-> 0, block_size |-> 0, c |-> 0]
    /\ thresholded = [by |-> "none", image |-> image]
    /\ prep_in \in [width : ImageWidths, height : ImageHeights, config : PreprocessConfigs,
                    memory_ok : BOOLEAN]
    /\ prep_out = NotPreprocessed
    /\ pc = "ready"

CallPreprocessForOcr ==
    /\ pc = "ready"
    /\ prep_out' = preprocess_for_ocr(prep_in, prep_in.config, prep_in.memory_ok)
    /\ pc' = "done"
    /\ UNCHANGED <<envVars, oneVars, multiVars, matchVars, fusionVars, detectVars, calibVars, pureVars,
                   cmdVars, image, threshold_args, thresholded, prep_in>>

NextPreprocess == CallPreprocessForOcr

SpecPreprocess == InitPreprocess /\ [][NextPreprocess]_vars

\* ---- get_default_card_regions ------------------------------------------------------------
\* Display sizes on which `(v as f32 * (dim as f32 / reference)) as i32` is the exact
\* quotient truncated (see Scale).
LayoutWidths == {0, 1, 640, 800, 1024, 1280, 1366, 1600, 1920, 2560, 3440, 3840, 5120, 7680}
LayoutHeights == {0, 1, 480, 600, 720, 768, 900, 1080, 1200, 1440, 1600, 2160, 4320}

InitLayout ==
    /\ screens \in { [status |-> "ok", displays |-> <<[width |-> w, height |-> h]>>] :
                        w \in LayoutWidths, h \in LayoutHeights }
    /\ capture_area_ok = [i \in 1..MaxRegions |-> TRUE]
    /\ overflow_checks = FALSE
    /\ IdleOne /\ IdleMulti /\ IdleMatch /\ IdleFusion /\ IdleDetect /\ IdleRest
    /\ pc = "ready"

CallGetDefaultCardRegions ==
    /\ pc = "ready"
    /\ regions' = get_default_card_regions(screens.displays[1].width,
                                            screens.displays[1].height)
    /\ pc' = "done"
    /\ UNCHANGED <<envVars, oneVars, results, matchVars, fusionVars, detectVars, calibVars,
                   pureVars, cmdVars, imageVars>>

NextLayout == CallGetDefaultCardRegions

SpecLayout == InitLayout /\ [][NextLayout]_vars


\* ---- CaptureRegion::contains ---------------------------------------------------------------
ContainsRegions ==
    { CaptureRegion(x, y, w, h) : x \in {-1, 0, 100, MaxI32}, y \in {0, 100},
                                  w \in {U32Zero, U32(0, 1), U32(0, 200), U32(1, 0), U32Max},
                                  h \in {U32(0, 150), U32Max} }
PointXs == {-2, -1, 0, 99, 100, 299, 300, MaxI32}
PointYs == {-1, 0, 100, 249, 250}

InitContains ==
    /\ screens = [status |-> "ok", displays |-> <<Display>>]
    /\ capture_area_ok = [i \in 1..MaxRegions |-> TRUE]
    /\ overflow_checks \in BOOLEAN
    /\ region \in ContainsRegions
    /\ cap_result = NoResult
    /\ point \in PointXs \X PointYs
    /\ contained = "none"
    /\ card_list = <<>> /\ built = NotBuilt /\ all_matches = NoMatches /\ diagnostic = NotDiagnosed
    /\ IdleMulti /\ IdleMatch /\ IdleFusion /\ IdleDetect /\ IdleCalib /\ IdleCmd /\ IdleImage
    /\ pc = "ready"

CallContains ==
    /\ pc = "ready"
    /\ contained' = contains(region, point[1], point[2], overflow_checks)
    /\ pc' = "done"
    /\ UNCHANGED <<envVars, oneVars, multiVars, matchVars, fusionVars, detectVars, calibVars,
                   point, card_list, built, all_matches, diagnostic, cmdVars, imageVars>>

NextContains == CallContains

SpecContains == InitContains /\ [][NextContains]_vars


\* ---- CardDetectionResult::new and ::failed ------------------------------------------------
\* Bound on the length of the list given to CardDetectionResult::new.
MaxDetected == 3

DetectedPool ==
    { DetectedCard([card_id |-> c.card_id, card_name |-> c.card_name, ocr_text |-> "fell",
                    ocr_confidence |-> 80, match_score |-> 60, overall_confidence |-> o],
                   CaptureRegion(0, 0, U32(0, 300), U32(0, 60))) :
        c \in {Fel}, o \in {0, 680, 1000} } \cup
    { DetectedCard([card_id |-> Talos.card_id, card_name |-> Talos.card_name,
                    ocr_text |-> "talos", ocr_confidence |-> 95, match_score |-> 100,
                    overall_confidence |-> 980],
                   CaptureRegion(810, 200, U32(0, 300), U32(0, 60))) }

ErrorMessages == {"", "Screen capture failed: no display"}

InitResult ==
    /\ IdleEnv /\ IdleOne /\ IdleMulti /\ IdleMatch /\ IdleFusion /\ IdleDetect
    /\ IdleCalib /\ IdleCmd /\ IdleImage
    /\ point = <<0, 0>> /\ contained = "none"
    /\ card_list \in SeqsUpTo(DetectedPool, MaxDetected)
    /\ built = NotBuilt
    /\ all_matches = NoMatches /\ diagnostic = NotDiagnosed
    /\ pc = "ready"

resultFrame ==
    <<envVars, oneVars, multiVars, matchVars, fusionVars, detectVars, calibVars, point,
      contained, card_list, all_matches, diagnostic, cmdVars, imageVars>>

CallCardDetectionResultNew ==
    /\ pc = "ready"
    /\ built' = [by |-> "new", result |-> CardDetectionResult_new(card_list)]
    /\ pc' = "done"
    /\ UNCHANGED resultFrame

CallCardDetectionResultFailed ==
    /\ pc = "ready"
    /\ \E error \in ErrorMessages :
         built' = [by |-> "failed", result |-> CardDetectionResult_failed(error)]
    /\ pc' = "done"
    /\ UNCHANGED resultFrame

NextResult == CallCardDetectionResultNew \/ CallCardDetectionResultFailed

SpecResult == InitResult /\ [][NextResult]_vars


\* ---- the confidences of the matcher and of test_ocr_region -----------------------------------
\* the matchers that score "fel" against each card name freely
ConfidenceFuzzy ==
    { [q \in Patterns |->
          IF q = "fel"
          THEN [c \in ChoiceStrings |-> IF c \in {"just", "cause"} THEN words ELSE row[c]]
          ELSE NoScores] :
        row \in [{"fel", "talos", "just cause"} -> Scores], words \in {None, Some(150)} }

ConfidenceReads ==
    { [ok |-> FALSE, text |-> "", confidence |-> 0],
      [ok |-> TRUE, text |-> "Fel", confidence |-> 95] }

Thresholds == {0, 60}

InitConfidence ==
    /\ IdleEnv /\ IdleMulti /\ IdleFusion /\ IdleCalib /\ IdleCmd /\ IdleImage
    /\ region = InsideRegion /\ cap_result = NoResult
    /\ card_names \in SeqsUpTo(CardPool, MaxCards) \ {<<>>}
    /\ min_score \in MinScores
    /\ ocr_text = "Fel"
    /\ fuzzy \in ConfidenceFuzzy
    /\ best_match = NoMatch
    /\ config = CardDetectionOptions(<<>>, DefaultMinConfidence, DefaultMinMatchScore, 600)
    /\ ocr_engine \in { <<read>> : read \in ConfidenceReads }
    /\ db = [ok |-> TRUE, names |-> card_names]
    /\ pipeline = NoPipeline /\ run = NotRun /\ response = NoResponse
    /\ point = <<0, 0>> /\ contained = "none" /\ card_list = <<>> /\ built = NotBuilt
    /\ all_matches = NoMatches
    /\ diagnostic = NotDiagnosed
    /\ pc = "ready"

confidenceFrame ==
    <<envVars, oneVars, multiVars, matchVars, fusionVars, detectVars, calibVars, point,
      contained, card_list, built, cmdVars, imageVars>>

CallFindAllMatches ==
    /\ pc = "ready"
    /\ \E threshold \in Thresholds :
         all_matches' = [by |-> "find_all_matches",
                         matches |-> find_all_matches(card_names, fuzzy, ocr_text, threshold)]
    /\ pc' = "done"
    /\ UNCHANGED <<confidenceFrame, diagnostic>>

\* match_results on what the engine read, and a second, weaker reading of the text
CallMatchResults ==
    /\ pc = "ready"
    /\ all_matches' =
         [by |-> "match_results",
          matches |-> match_results(card_names, min_score, fuzzy,
                          <<OcrResult_new(ocr_text, 60, DefaultMinConfidence),
                            OcrResult_new(ocr_engine[1].text, ocr_engine[1].confidence,
                                          DefaultMinConfidence)>>)]
    /\ pc' = "done"
    /\ UNCHANGED <<confidenceFrame, diagnostic>>

CallTestOcrRegion ==
    /\ pc = "ready"
    /\ diagnostic' = test_ocr_region(db, region, screens, capture_area_ok[1],
                                      overflow_checks, ocr_engine[1], fuzzy)
    /\ pc' = "done"
    /\ UNCHANGED <<confidenceFrame, all_matches>>

NextConfidence ==
    CallFindBestMatch \/ CallFindAllMatches \/ CallMatchResults \/ CallTestOcrRegion

SpecConfidence == InitConfidence /\ [][NextConfidence]_vars


----------------------------------------------------------------------------
(* Claims about the single calls *)

\* What the bounds test is meant to decide, over the integers:
\* x < 0 || y < 0 || x + width > screen_width || y + height > screen_height.
ExceedsScreen(pos, extent, limit) ==
    pos >= 0 /\ (extent.top = 1 \/ extent.low > limit - pos)

OutsideScreen(r, sw, sh) ==
    \/ r.x < 0
    \/ r.y < 0
    \/ ExceedsScreen(r.x, r.width, sw)
    \/ ExceedsScreen(r.y, r.height, sh)

\* C9: capture_region classifies its outcome as: invalid region ->
\* InvalidRegion; else no display -> NoScreensAvailable; else
\* RegionOutOfBounds exactly when the region lies outside the primary display
\* (over the integers, for every i32 x, y and u32 width, height); else a
\* backend failure -> CaptureFailed; else an image of exactly width x height.
\* A failure to enumerate the displays is read here as a backend failure
\* (CaptureFailed), the reading most favourable to the code.
C9_Classification ==
    pc = "done" =>
        IF ~is_valid(region) THEN cap_result = CaptureErr("InvalidRegion")
        ELSE IF screens.status = "error" THEN cap_result = CaptureErr("CaptureFailed")
        ELSE IF screens.displays = <<>> THEN cap_result = CaptureErr("NoScreensAvailable")
        ELSE IF OutsideScreen(region, screens.displays[1].width, screens.displays[1].height)
             THEN cap_result = CaptureErr("RegionOutOfBounds")
        ELSE IF ~capture_area_ok[1] THEN cap_result = CaptureErr("CaptureFailed")
        ELSE cap_result = Image(region.width, region.height)

\* The regions on which the bounds test does not overflow: width and height
\* fit an i32 and the sums x + width, y + height stay in range.
NoOverflowRegion(r) ==
    /\ r.width.top = 0 /\ r.height.top = 0
    /\ ~AddOverflows(r.x, r.width.low)
    /\ ~AddOverflows(r.y, r.height.low)

\* Lemma: on the regions whose bounds test does not overflow, capture_region
\* classifies as C9 says.
ClassificationWithoutOverflow ==
    NoOverflowRegion(region) => C9_Classification

\* The outcome of capturing region i of the list on its own.
CapturedAlone(i) ==
    capture_region(regions[i], screens, capture_area_ok[i], overflow_checks)

\* C1: capture_multiple_regions returns one result per input region, in
\* order, the result at index i depending only on region i: whatever the
\* other regions of the list do, a region that is captured successfully on
\* its own is returned as an image at its own index.
C1_FailureIsolation ==
    pc = "done" =>
        \A i \in 1..Len(regions) :
            CapturedAlone(i).tag = "Image" =>
                /\ results.status = "returned"
                /\ Len(results.results) = Len(regions)
                /\ results.results[i] = CapturedAlone(i)

\* Lemma: when the call returns, it returns one result per region, each the
\* region's own; and without overflow checks it always returns.
ReturnedResultsAreIndexwise ==
    /\ pc = "done" /\ results.status = "returned" =>
          /\ Len(results.results) = Len(regions)
          /\ \A i \in 1..Len(regions) : results.results[i] = CapturedAlone(i)
    /\ pc = "done" /\ ~overflow_checks => results.status = "returned"

\* ---- the matcher -------------------------------------------------------------

Max(S) == CHOOSE m \in S : \A n \in S : n <= m
Min(S) == CHOOSE m \in S : \A n \in S : m <= n

\* The scores of card k for the normalized text p: its whole name, and with
\* `words` each word of its name.
CandidateScores(k, p, words) ==
    LET name == to_lowercase(card_names[k].card_name)
        choices == {name} \cup (IF words THEN {split_whitespace(name)[j] :
                                   j \in 1..Len(split_whitespace(name))} ELSE {})
    IN  { fuzzy[p][c].v : c \in {d \in choices : fuzzy[p][d].some} }

\* The match the two-pass rule prescribes: the card with the highest score,
\* the first such card in corpus order, if that score exceeds min_score.
PrescribedMatch(p, words) ==
    LET scored == {k \in 1..Len(card_names) : CandidateScores(k, p, words) # {}}
        top == Max(UNION {CandidateScores(k, p, words) : k \in scored})
        first == Min({k \in scored : Max(CandidateScores(k, p, words)) = top})
    IN  IF scored = {} \/ top <= min_score THEN None ELSE Some(first)

AgreesWith(prescribed) ==
    /\ best_match.some = prescribed.some
    /\ prescribed.some =>
          /\ best_match.m.card_id = card_names[prescribed.v].card_id
          /\ best_match.m.card_name = card_names[prescribed.v].card_name

\* C6: find_best_match returns the candidate with the highest fuzzy score over
\* the whole-name scores and, only when the normalized OCR text is shorter than
\* 10 characters, the per-word scores; only if that score exceeds min_score;
\* among equal best scores the first in corpus order.
C6_BestOfTwoPasses ==
    pc = "done" /\ trim(to_lowercase(ocr_text)) # "" =>
        LET p == trim(to_lowercase(ocr_text))
        IN  AgreesWith(PrescribedMatch(p, CharCount(p) < 10))

\* Lemma: C6 with the length of the text taken in bytes, as str::len does.
BestOfTwoPassesByByteLength ==
    pc = "done" /\ trim(to_lowercase(ocr_text)) # "" =>
        LET p == trim(to_lowercase(ocr_text))
        IN  AgreesWith(PrescribedMatch(p, len(p) < 10))

\* C7: find_best_match returns no match for an empty or whitespace-only text
\* and when no corpus member scores at least the threshold; a match it
\* returns has match_score >= the threshold; "Fel" against (banished_fel, Fel)
\* at threshold 60, scored above 60 by the fuzzy matcher, returns that card
\* with match_score >= 60.
C7_Threshold ==
    pc = "done" =>
        LET p == trim(to_lowercase(ocr_text))
        IN  /\ p = "" => best_match = NoMatch
            /\ (p # "" /\ \A k \in 1..Len(card_names) :
                              \A v \in CandidateScores(k, p, TRUE) : v < min_score)
                  => best_match = NoMatch
            /\ best_match.some => best_match.m.match_score >= min_score
            /\ ( /\ ocr_text = "Fel" /\ card_names = <<Fel>> /\ min_score = 60
                 /\ fuzzy["fel"]["fel"].some /\ fuzzy["fel"]["fel"].v > 60 )
                  => /\ best_match.some
                     /\ best_match.m.card_id = "banished_fel"
                     /\ best_match.m.match_score >= 60

C7_Witness ==
    /\ pc = "done"
    /\ ocr_text = "Fel" /\ card_names = <<Fel>> /\ min_score = 60
    /\ best_match.some /\ best_match.m.card_id = "banished_fel"
    /\ best_match.m.match_score = 100

\* ---- confidence fusion ---------------------------------------------------------

\* C8: calculate_overall_confidence(ocr, match) = (ocr*0.4 + match*0.6)/100 for
\* all integers ocr, match in 0..100 (here in thousandths: ocr*4 + match*6), so
\* (80,60) gives 0.68, (80,80) gives 0.8, (100,100) gives 1.0, and the result
\* is within [0,1].
C8_Fusion ==
    pc = "done" =>
        /\ fusion_out * 10 = fusion_in[1] * 40 + fusion_in[2] * 60
        /\ fusion_out \in 0..1000
        /\ fusion_in = <<80, 60>> => fusion_out = 680
        /\ fusion_in = <<80, 80>> => fusion_out = 800
        /\ fusion_in = <<100, 100>> => fusion_out = 1000

C8_Witness == pc = "done" /\ fusion_in = <<80, 60>> /\ fusion_out = 680

----------------------------------------------------------------------------
(* Claims about the detection pipeline *)

Regs == pipeline.options.capture.regions
Cards == run.result.detected_cards
Returned == pc = "done" /\ run.status = "returned"
InSlots(i) == \E k \in 1..Len(run.slots) : run.slots[k] = i

\* Slot i is captured as an image.
SlotCaptured(i) ==
    capture_region(Regs[i], screens, capture_area_ok[i], overflow_checks).tag = "Image"

\* Gate 1: the engine read the slot with confidence >= min_confidence.
OcrGate(i) ==
    ocr_engine[i].ok /\ ocr_engine[i].confidence >= pipeline.options.recognize.min_confidence

\* The best fuzzy match of what was read in slot i.
BestOfSlot(i) ==
    find_best_match(pipeline.card_names, pipeline.options.recognize.min_match_score,
                    fuzzy, trim(ocr_engine[i].text))

\* Gate 3: the fused confidence of slot i is >= min_overall_confidence.
FusedGate(i) ==
    ocr_engine[i].confidence * 4 + BestOfSlot(i).m.match_score * 6
        >= pipeline.options.min_overall_confidence

PassesGates(i) == OcrGate(i) /\ BestOfSlot(i).some /\ FusedGate(i)

\* C2: detect_cards never aborts on a per-region failure: whatever fails in
\* the regions, the call returns Ok with success and no error message, the
\* failing regions are absent, and every region that is captured, read and
\* passes the thresholds is among the detected cards.
C2_NeverAborts ==
    pc = "done" /\ pipeline.ok =>
        /\ run.status = "returned"
        /\ run.result.success /\ ~run.result.error_message.some
        /\ \A i \in 1..Len(Regs) :
              /\ ~SlotCaptured(i) \/ ~ocr_engine[i].ok => ~InSlots(i)
              /\ SlotCaptured(i) /\ PassesGates(i) => InSlots(i)

\* C3: every DetectedCard carries the engine's confidence for its region in
\* ocr_confidence and overall_confidence = (ocr_confidence*0.4 +
\* match_score*0.6)/100; with the corpus Fel, Talos, the text "Fell" read at
\* confidence 85, a fuzzy score that clears 60 and min_overall_confidence 0.5,
\* the result holds a card with card_id banished_fel.
C3_FusedConfidence ==
    Returned =>
        /\ \A k \in 1..Len(Cards) :
              /\ Cards[k].ocr_confidence = ocr_engine[run.slots[k]].confidence
              /\ Cards[k].overall_confidence =
                     Cards[k].ocr_confidence * 4 + Cards[k].match_score * 6
        /\ ( /\ pipeline.card_names = Corpus
             /\ pipeline.options.min_overall_confidence = 500
             /\ fuzzy["fell"]["fel"].some /\ fuzzy["fell"]["fel"].v > 60
             /\ \E i \in 1..Len(Regs) :
                   /\ SlotCaptured(i)
                   /\ ocr_engine[i] = [ok |-> TRUE, text |-> "Fell", confidence |-> 85] )
              => \E k \in 1..Len(Cards) : Cards[k].card_id = "banished_fel"

\* C4: a region yields a DetectedCard if and only if all three gates pass
\* (OCR confidence >= min_confidence, a best match that clears
\* min_match_score, fused confidence >= min_overall_confidence), and no
\* DetectedCard has overall_confidence below min_overall_confidence.
C4_ThreeGates ==
    Returned =>
        /\ \A i \in 1..Len(Regs) :
              SlotCaptured(i) /\ ocr_engine[i].ok => (InSlots(i) <=> PassesGates(i))
        /\ \A k \in 1..Len(Cards) :
              Cards[k].overall_confidence >= pipeline.options.min_overall_confidence

\* Lemma: the gates as the code applies them.  A region yields a card iff
\* the text is confident, a match clears min_match_score, and
\* min_overall_confidence is at most the 0.0 that process leaves in the
\* match; and a card's ocr_confidence and overall_confidence are 0.
GatesAsCoded ==
    Returned =>
        /\ \A i \in 1..Len(Regs) :
              SlotCaptured(i) /\ ocr_engine[i].ok =>
                  ( InSlots(i) <=> /\ OcrGate(i) /\ BestOfSlot(i).some
                                   /\ pipeline.options.min_overall_confidence <= 0 )
        /\ \A k \in 1..Len(Cards) :
              Cards[k].ocr_confidence = 0 /\ Cards[k].overall_confidence = 0

\* C5: detected cards are in ascending order of the region index they came
\* from, at most one per configured region, each carrying the configured
\* region at its index; the fallback region (0,0,0,0) appears only for an
\* index outside the region list, and the lookup never fails the run.
C5_RegionOrder ==
    Returned =>
        /\ Len(run.slots) = Len(Cards)
        /\ run.result.success
        /\ \A k \in 1..Len(Cards) :
              /\ \A j \in 1..Len(Cards) : j < k => run.slots[j] < run.slots[k]
              /\ run.slots[k] \in 1..Len(Regs) => Cards[k].region = Regs[run.slots[k]]
              /\ Cards[k].region = CaptureRegion(0, 0, U32Zero, U32Zero)
                    => run.slots[k] \notin 1..Len(Regs)

C5_Witness ==
    /\ Returned
    /\ Len(Cards) = 2
    /\ Cards[1].region = InsideRegion
    /\ Cards[2].region = CornerRegion

\* C10: constructing the pipeline with an empty corpus fails with
\* NoCardNamesAvailable and no region is captured; the command
\* detect_cards_on_screen on an empty corpus returns a response with
\* success = false, an error message and no detected cards.
C10_EmptyCorpus ==
    /\ (pc # "ready" /\ response.tag = "none" /\ card_names = <<>>) =>
          /\ ~pipeline.ok /\ pipeline.err = "NoCardNamesAvailable"
          /\ pc = "done"
          /\ run.status = "none" /\ run.capture_results = <<>>
    /\ (pc # "ready" /\ response.tag # "none" /\ db.ok /\ db.names = <<>>) =>
          /\ response.tag = "Ok"
          /\ ~response.body.success
          /\ response.body.error.some
          /\ response.body.detected_cards = <<>> /\ response.body.details = <<>>
          /\ run.status = "none" /\ run.capture_results = <<>>

C10_Witness ==
    /\ pc = "done"
    /\ response.tag = "none" /\ card_names = <<>>
    /\ Len(config.capture.regions) > 0
    /\ pipeline.err = "NoCardNamesAvailable"
    /\ run.status = "none"

----------------------------------------------------------------------------
(* Claims about calibration *)

\* C11: calibration never fails outright: in every state of the display
\* environment, including one whose displays cannot be enumerated or in which
\* every capture fails, calibrate_regions yields a report (with
\* successful_captures = 0 when nothing could be captured), not an error.
C11_CalibrationNeverFails ==
    pc = "done" =>
        /\ report.status = "Ok"
        /\ (\A i \in 1..Len(config.capture.regions) :
                capture_region(config.capture.regions[i], screens, capture_area_ok[i],
                               overflow_checks).tag # "Image")
              => report.report.successful_captures = 0

\* The configured regions that are captured as an image.
CapturedRegions ==
    { i \in 1..Len(config.capture.regions) :
        capture_region(config.capture.regions[i], screens, capture_area_ok[i],
                       overflow_checks).tag = "Image" }

\* C12: every report of calibrate_regions has successful_captures +
\* failed_captures = regions_tested = the number of configured regions;
\* is_successful holds iff failed_captures = 0 and successful_captures > 0, so
\* never on an empty layout; success_rate is successes/(successes+failures)*100,
\* and 0 when no region was tested.
C12_ReportCounts ==
    pc = "done" /\ report.status = "Ok" =>
        LET rep == report.report
            succ == rep.successful_captures
            fail == rep.failed_captures
            rate == calibration.body.success_rate
        IN  /\ succ + fail = rep.regions_tested
            /\ rep.regions_tested = Len(config.capture.regions)
            /\ succ = Cardinality(CapturedRegions)
            /\ calibration.body.success <=> (fail = 0 /\ succ > 0)
            /\ config.capture.regions = <<>> => ~calibration.body.success
            /\ succ + fail > 0 => rate.num * (succ + fail) = succ * 100 * rate.den
            /\ succ + fail = 0 => rate.num = 0

C12_Witness ==
    /\ pc = "done" /\ report.status = "Ok"
    /\ report.report.successful_captures = 1
    /\ report.report.failed_captures = 1
    /\ ~calibration.body.success
    /\ calibration.body.success_rate = [num |-> 100, den |-> 2]

\* The default layout of the two display sizes, as get_default_card_regions
\* computes it in f32.
LayoutOf(width, height) ==
    IF <<width, height>> = <<1280, 720>>
    THEN << CaptureRegion(233, 133, U32(0, 200), U32(0, 40)),
            CaptureRegion(540, 133, U32(0, 200), U32(0, 40)),
            CaptureRegion(846, 133, U32(0, 200), U32(0, 40)),
            CaptureRegion(540, 333, U32(0, 200), U32(0, 40)) >>
    ELSE BaseRegions

\* C13: the recommended_regions of every calibration report are the default
\* layout for the screen dimensions of the same report, which are the
\* primary display's, whatever layout is configured and however many of its
\* captures succeeded.
C13_RecommendedLayout ==
    pc = "done" /\ report.status = "Ok" =>
        /\ report.report.screen_dimensions =
               <<screens.displays[1].width, screens.displays[1].height>>
        /\ report.report.recommended_regions =
               LayoutOf(report.report.screen_dimensions[1], report.report.screen_dimensions[2])
        /\ calibration.body.recommended_regions = report.report.recommended_regions
        /\ calibration.body.screen_width = screens.displays[1].width
        /\ calibration.body.screen_height = screens.displays[1].height

C13_Witness ==
    /\ pc = "done" /\ report.status = "Ok"
    /\ screens.displays = <<SmallDisplay>>
    /\ config.capture.regions = <<CornerRegion, InsideRegion>>
    /\ report.report.failed_captures = 1
    /\ report.report.recommended_regions[1] = CaptureRegion(233, 133, U32(0, 200), U32(0, 40))

----------------------------------------------------------------------------
(* Claims about the commands *)

\* The calls of a command that have returned.
ReturnedCalls(cmd) ==
    { i \in 1..Len(calls) : calls[i].cmd = cmd /\ calls[i].pc = "returned" }

\* C14: the shared configuration is guarded by one lock that every read
\* (get regions, the captures of detection and of calibration) and every
\* write holds for the whole of its access, so that no write to the layout
\* interleaves with a capture over that layout: a call that is capturing
\* holds the lock, and the shared layout is the one it captures.
C14_LockHeldWhileCapturing ==
    \A i \in 1..Len(calls) :
        calls[i].pc = "capturing" =>
            /\ lock = i
            /\ config.capture.regions = calls[i].snapshot.capture.regions

\* What the lock does give: the holder is the one call past its lock(), and
\* the shared configuration changes only in a step of the holder.
MutualExclusion ==
    /\ \A i \in 1..Len(calls) : calls[i].pc = "locked" <=> lock = i
    /\ lock \in 0..Len(calls)

WritesHoldTheLock ==
    [][config' # config => (lock # 0 /\ calls[lock].pc = "locked" /\ lock' = 0)]_vars

\* C15: after any sequence of commands from OcrState::new() the stored
\* min_overall_confidence is within [0, 1]: update_ocr_config stores
\* clamp(value, 0, 1) of a supplied value and leaves the stored one when none
\* is supplied, and no other command changes it.
C15_ConfidenceClamped ==
    /\ config.min_overall_confidence \in 0..1000
    /\ \A i \in ReturnedCalls("update_ocr_config") :
          LET v == calls[i].arg.min_confidence.v
              stored == calls[i].after.min_overall_confidence
          IN  IF calls[i].arg.min_confidence.some
              THEN /\ v < 0 => stored = 0
                   /\ v > 1000 => stored = 1000
                   /\ v \in 0..1000 => stored = v
              ELSE stored = calls[i].before.min_overall_confidence
    /\ \A i \in 1..Len(calls) :
          calls[i].cmd # "update_ocr_config" =>
              calls[i].after.min_overall_confidence = calls[i].before.min_overall_confidence

C15_Witness ==
    \E i, j \in ReturnedCalls("update_ocr_config") :
        /\ calls[i].arg.min_confidence = Some(1500)
        /\ calls[i].after.min_overall_confidence = 1000
        /\ calls[j].arg.min_confidence = Some(0 - 250)
        /\ calls[j].before.min_overall_confidence = 1000
        /\ config.min_overall_confidence = 0

\* C16: get_capture_regions after set_capture_regions, with no set or reset
\* between them, returns exactly the regions that were set, in length, order
\* and coordinates; set replaces the layout wholesale and reports the number of
\* regions supplied as regions_set.
C16_SetThenGet ==
    /\ \A i \in ReturnedCalls("get_capture_regions") :
          calls[i].seen.kind = "set" => calls[i].result.body = calls[i].seen.regions
    /\ \A i \in ReturnedCalls("set_capture_regions") :
          /\ calls[i].result.tag = "Ok"
          /\ calls[i].result.body.success
          /\ calls[i].result.body.regions_set = Len(calls[i].arg)
          /\ calls[i].after.capture.regions = calls[i].arg
    /\ last_write.kind = "set" => config.capture.regions = last_write.regions

C16_Witness ==
    \E i \in ReturnedCalls("get_capture_regions") :
        /\ calls[i].seen.kind = "set"
        /\ Len(calls[i].result.body) = 2
        /\ calls[i].result.body[1] = CaptureRegionInfo_from(CornerRegion)
        /\ calls[i].result.body[2] = CaptureRegionInfo_from(InsideRegion)

\* C17: at application startup the shared CaptureConfig holds the default
\* layout computed for the detected primary-screen size, and records that
\* size as its screen dimensions.
C17_StartupLayout ==
    (last_write.kind = "startup" /\ get_primary_screen_dimensions(screens).ok) =>
        LET dimensions == get_primary_screen_dimensions(screens) IN
        /\ config.capture.screen_width = dimensions.width
        /\ config.capture.screen_height = dimensions.height
        /\ config.capture.regions = LayoutOf(dimensions.width, dimensions.height)

\* What the startup configuration is instead: the layout and the size of a
\* 1920 x 1080 screen, on every display.
StartupLayoutIsFixed ==
    last_write.kind = "startup" =>
        /\ config.capture.screen_width = 1920
        /\ config.capture.screen_height = 1080
        /\ config.capture.regions = BaseRegions

\* C18: the detect-once command always returns an aggregate response with a
\* success flag and an optional error string, never a raw error: a failure
\* of the corpus provider, an empty corpus, a failure to construct the
\* pipeline and a failed detection each yield a response with
\* success = false and error set.
C18_AlwaysAResponse ==
    response.tag # "none" =>
        /\ response.tag = "Ok"
        /\ (~db.ok \/ db.names = <<>> \/ ~pipeline.ok \/ run.status # "returned") =>
              (~response.body.success /\ response.body.error.some)

\* The same, for the calls in which the corpus provider answered and
\* nothing panicked.
ResponseWhenCorpusIsRead ==
    (response.tag # "none" /\ db.ok /\ response.tag # "panic") =>
        /\ response.tag = "Ok"
        /\ (db.names = <<>> \/ ~pipeline.ok \/ run.status # "returned") =>
              (~response.body.success /\ response.body.error.some)

----------------------------------------------------------------------------
(* Claims about preprocessing *)

Binarized(img) ==
    \A y \in 1..img.height : \A x \in 1..img.width : img.pixels[y][x] \in {0, 255}

\* C19: thresholding is idempotent on binarized input: of an image whose
\* pixels are all 0 or 255, apply_threshold with any threshold and
\* apply_adaptive_threshold with any block size and constant C return the
\* image itself.
C19_ThresholdIdempotent ==
    (pc = "done" /\ thresholded.by # "none" /\ Binarized(image)) =>
        thresholded.image = image

\* What does hold: a threshold below 255 leaves a binarized image as it is, so
\* does the adaptive threshold with an even block size, and every result of
\* a thresholding that ran is binarized.
ThresholdBelowWhite ==
    /\ (thresholded.by = "fixed" /\ Binarized(image) /\ threshold_args.threshold < 255) =>
           thresholded.image = image
    /\ (thresholded.by = "adaptive" /\ threshold_args.block_size % 2 = 0) =>
           thresholded.image = image
    /\ (thresholded.by = "fixed"
          \/ (thresholded.by = "adaptive" /\ threshold_args.block_size % 2 = 1)) =>
           Binarized(thresholded.image)

\* floor(n * scale_factor) for a scale factor of the model, when it is below 2^32
ExactProduct(n, factor) ==
    IF factor.e >= 31
    THEN (IF n.low = 1 /\ factor.m = 1 /\ factor.e = 31
          THEN [fits |-> TRUE, value |-> U32(1, 0)]
          ELSE [fits |-> FALSE, value |-> U32Max])
    ELSE IF factor.e >= 0 THEN [fits |-> TRUE, value |-> U32(0, n.low * factor.m * Pow2(factor.e))]
    ELSE [fits |-> TRUE, value |-> U32(0, (n.low * factor.m) \div Pow2(0 - factor.e))]

\* C20: preprocess_for_ocr fails with EmptyImage exactly when the width or
\* the height of the input is zero; on every other input, with every
\* PreprocessConfig, it succeeds, with the dimensions (floor(width *
\* scale_factor), floor(height * scale_factor)) when scale_factor > 1.0 and
\* with the dimensions of the input otherwise.
C20_PreprocessDimensions ==
    pc = "done" =>
        LET empty == prep_in.width = U32Zero \/ prep_in.height = U32Zero
            factor == prep_in.config.scale_factor
        IN  /\ (prep_out.status = "Err" /\ prep_out.err = "EmptyImage") <=> empty
            /\ ~empty =>
                  /\ prep_out.status = "Ok"
                  /\ IF f32_gt_one(factor)
                     THEN /\ ExactProduct(prep_in.width, factor).fits
                          /\ ExactProduct(prep_in.height, factor).fits
                          /\ prep_out.width = ExactProduct(prep_in.width, factor).value
                          /\ prep_out.height = ExactProduct(prep_in.height, factor).value
                     ELSE /\ prep_out.width = prep_in.width
                          /\ prep_out.height = prep_in.height

\* The same, for widths that an f32 holds exactly and scale factors up to 2.
DimensionsWithinF32 ==
    (pc = "done" /\ prep_in.width.low < 16777216 /\ prep_in.config.scale_factor.e <= 1) =>
        C20_PreprocessDimensions

----------------------------------------------------------------------------
(* Claims about the default layout, point containment and result construction *)

LayoutFor(width, height) == pc = "done" /\ screens.displays[1] = [width |-> width, height |-> height]

\* C21: get_default_card_regions always returns four regions in the order left,
\* center, right, lower-center; at 1920 x 1080 they are the base layout and all
\* valid; at 3840 x 2160 every x, y, width and height is twice its 1920 x 1080 value.
C21_DefaultLayout ==
    /\ pc = "done" =>
          /\ Len(regions) = 4
          /\ regions[1].x <= regions[2].x /\ regions[2].x <= regions[3].x
          /\ regions[1].y = regions[2].y /\ regions[2].y = regions[3].y
          /\ regions[4].x = regions[2].x /\ regions[4].y >= regions[2].y
    /\ LayoutFor(1920, 1080) =>
          /\ regions = << [x |-> 350, y |-> 200, width |-> U32(0, 300), height |-> U32(0, 60)],
                          [x |-> 810, y |-> 200, width |-> U32(0, 300), height |-> U32(0, 60)],
                          [x |-> 1270, y |-> 200, width |-> U32(0, 300), height |-> U32(0, 60)],
                          [x |-> 810, y |-> 500, width |-> U32(0, 300), height |-> U32(0, 60)] >>
          /\ \A k \in 1..4 : is_valid(regions[k])
    /\ LayoutFor(3840, 2160) =>
          regions = << [x |-> 700, y |-> 400, width |-> U32(0, 600), height |-> U32(0, 120)],
                       [x |-> 1620, y |-> 400, width |-> U32(0, 600), height |-> U32(0, 120)],
                       [x |-> 2540, y |-> 400, width |-> U32(0, 600), height |-> U32(0, 120)],
                       [x |-> 1620, y |-> 1000, width |-> U32(0, 600), height |-> U32(0, 120)] >>

DoubledLayout == LayoutFor(3840, 2160) /\ Len(regions) = 4 /\ regions[3].x = 2540

\* a <= p < a + extent over the integers, for p, a in i32 and extent a u32, computed
\* without leaving the range of 32-bit integers
Within(p, a, extent) ==
    /\ a <= p
    /\ IF a >= 0 \/ p < 0 THEN extent.top = 1 \/ p - a < extent.low
       ELSE IF extent.top = 0 THEN p < extent.low + a
       ELSE p - MaxI32 - 1 < extent.low + a

InsideOverTheIntegers ==
    Within(point[1], region.x, region.width) /\ Within(point[2], region.y, region.height)

\* C22: for every region with x, y in i32 and width, height in u32 and every point,
\* contains(px, py) is true exactly when x <= px < x + width and y <= py < y + height
\* over the integers; for a valid region contains(x, y) is true.
C22_ContainsExact ==
    pc = "done" => contained = (IF InsideOverTheIntegers THEN "true" ELSE "false")

\* The same where neither extent reaches 2^31 and neither far edge leaves the i32 range.
ContainsWithoutOverflow ==
    ( /\ pc = "done"
      /\ region.width.top = 0 /\ region.height.top = 0
      /\ ~AddOverflows(region.x, region.width.low)
      /\ ~AddOverflows(region.y, region.height.low) )
    => contained = (IF InsideOverTheIntegers THEN "true" ELSE "false")

\* the confidences of a list of cards added up from its last element
RECURSIVE TotalConfidence(_)
TotalConfidence(list) ==
    IF list = <<>> THEN 0
    ELSE list[Len(list)].overall_confidence + TotalConfidence(SubSeq(list, 1, Len(list) - 1))

\* C23: CardDetectionResult::new(cards) has success true, no error message and the
\* arithmetic mean of the cards' overall confidences as its average (0.0, with is_empty,
\* for no cards); CardDetectionResult::failed has success false, no cards and an error
\* message, so an empty success and a failure are told apart.
C23_ResultConstructors ==
    /\ (pc = "done" /\ built.by = "new") =>
          /\ built.result.success /\ built.result.error_message = None
          /\ built.result.detected_cards = card_list
          /\ IF card_list = <<>>
             THEN built.result.average_confidence = [num |-> 0, den |-> 1]
                  /\ is_empty(built.result)
             ELSE /\ ~is_empty(built.result)
                  /\ built.result.average_confidence.den > 0
                  /\ built.result.average_confidence.num * Len(card_list)
                       = TotalConfidence(card_list) * built.result.average_confidence.den
    /\ (pc = "done" /\ built.by = "failed") =>
          /\ ~built.result.success /\ is_empty(built.result)
          /\ built.result.error_message.some
          /\ built.result # CardDetectionResult_new(<<>>)

MeanOfThree ==
    /\ pc = "done" /\ built.by = "new" /\ Len(card_list) = 3
    /\ built.result.average_confidence = [num |-> 2660, den |-> 3]

----------------------------------------------------------------------------
(* Claims about the confidences *)

InRange(match_score, confidence) ==
    match_score >= 0 /\ match_score <= 100 /\ confidence >= 0 /\ confidence <= 1000

\* C24: every CardMatch returned by find_best_match, match_results or find_all_matches
\* and every DetectedCardInfo returned by test_ocr_region has its match score within
\* 0..100 and its overall confidence within [0, 1], whatever the raw fuzzy scores.
C24_ConfidencesInRange ==
    pc = "done" =>
      /\ best_match.some => InRange(best_match.m.match_score, best_match.m.overall_confidence)
      /\ all_matches.by # "none" =>
            \A k \in 1..Len(all_matches.matches) :
                InRange(all_matches.matches[k].match_score,
                        all_matches.matches[k].overall_confidence)
      /\ diagnostic.status = "Ok" =>
            InRange(diagnostic.info.match_score, diagnostic.info.confidence)

\* The match scores are capped, and find_best_match and match_results keep the
\* confidence in range too.
MatchScoresCapped ==
    pc = "done" =>
      /\ best_match.some => InRange(best_match.m.match_score, best_match.m.overall_confidence)
      /\ all_matches.by # "none" =>
            \A k \in 1..Len(all_matches.matches) :
                /\ InRange(all_matches.matches[k].match_score, 0)
                /\ all_matches.by = "match_results" =>
                       InRange(0, all_matches.matches[k].overall_confidence)
      /\ diagnostic.status = "Ok" =>
            InRange(diagnostic.info.match_score, 0)

\* C25: reset_capture_regions replaces the layout by the default layout for the size
\* of the primary screen at the time of the call and reports success with regions_set
\* the length of the new layout; when the size cannot be obtained it reports success
\* false and regions_set 0 and leaves the stored configuration as it was.
C25_ResetToLiveLayout ==
    \A i \in ReturnedCalls("reset_capture_regions") :
        /\ calls[i].result.tag = "Ok"
        /\ IF screens.status = "ok" /\ screens.displays # <<>>
           THEN /\ calls[i].result.body.success
                /\ calls[i].after.capture.regions =
                       LayoutOf(screens.displays[1].width, screens.displays[1].height)
                /\ calls[i].result.body.regions_set = Len(calls[i].after.capture.regions)
           ELSE /\ ~calls[i].result.body.success
                /\ calls[i].result.body.regions_set = 0
                /\ calls[i].after = calls[i].before

ResetOnSmallDisplay ==
    \E i \in ReturnedCalls("reset_capture_regions") :
        /\ screens.displays = <<SmallDisplay>>
        /\ Len(calls[i].before.capture.regions) = 2
        /\ calls[i].result.body = SetRegionsResult(TRUE, 4)
        /\ config.capture.regions[1] = CaptureRegion(233, 133, U32(0, 200), U32(0, 40))

----------------------------------------------------------------------------
(* Claims about the order of the preprocessing stages *)

\* the place of a stage in the prescribed order
StageRank(stage) ==
    CASE stage = "grayscale" -> 1
      [] stage = "contrast" -> 2
      [] stage = "upscale" -> 3
      [] stage = "gaussian_blur" -> 4
      [] stage = "median_filter" -> 5
      [] stage \in {"adaptive_threshold", "fixed_threshold"} -> 6
      [] stage = "invert" -> 7

Ran(stage) == \E k \in 1..Len(prep_out.stages) : prep_out.stages[k] = stage

\* C27: preprocess_for_ocr runs its stages in the order grayscale, contrast, upscale,
\* denoise (blur, then median), threshold, invert: grayscale first, contrast only for
\* a contrast factor other than 1.0, upscale only for a scale factor above 1.0, denoise
\* and invert only when enabled, exactly one of the two thresholdings, and no stage
\* before an earlier-listed enabled stage has completed.
C27_StageOrder ==
    (pc = "done" /\ prep_out.stages # <<>>) =>
      /\ prep_out.stages[1] = "grayscale"
      /\ \A k \in 1..(Len(prep_out.stages) - 1) :
            StageRank(prep_out.stages[k]) < StageRank(prep_out.stages[k + 1])
      /\ Ran("contrast") <=> f32_ne_one(prep_in.config.contrast_factor)
      /\ Ran("upscale") => f32_gt_one(prep_in.config.scale_factor)
      /\ Ran("gaussian_blur") => prep_in.config.denoise
      /\ Ran("gaussian_blur") <=> Ran("median_filter")
      /\ Ran("invert") => prep_in.config.invert
      /\ Ran("adaptive_threshold") => prep_in.config.use_adaptive_threshold
      /\ Ran("fixed_threshold") => ~prep_in.config.use_adaptive_threshold
      /\ prep_out.status = "Ok" =>
            /\ Ran("upscale") <=> f32_gt_one(prep_in.config.scale_factor)
            /\ Ran("gaussian_blur") <=> prep_in.config.denoise
            /\ Ran("invert") <=> prep_in.config.invert
            /\ Ran("adaptive_threshold") # Ran("fixed_threshold")

AllStagesRan ==
    /\ pc = "done"
    /\ prep_out.stages = << "grayscale", "contrast", "upscale", "gaussian_blur",
                            "median_filter", "fixed_threshold", "invert" >>

----------------------------------------------------------------------------
(* Claims about the frame of the commands *)

LayoutWriters == {"set_capture_regions", "reset_capture_regions"}

\* the returned calls that wrote the field: the layout, or the confidence threshold
ReturnedWriters(cmds) == UNION { ReturnedCalls(cmd) : cmd \in cmds }
ReturnedThresholdUpdates ==
    { i \in ReturnedCalls("update_ocr_config") : calls[i].arg.min_confidence.some }

\* C29: each command changes only its own part of the shared configuration: set and
\* reset change the region list only; update_ocr_config changes min_overall_confidence
\* and the debug flag only, and of these only the ones supplied; detect, calibrate and
\* get change nothing.  So concurrent set and update calls do not lose each other's
\* update.
C29_CommandFrames ==
    /\ \A i \in 1..Len(calls) :
          calls[i].pc \in {"capturing", "returned"} =>
            CASE calls[i].cmd \in LayoutWriters ->
                   calls[i].after =
                       [calls[i].before EXCEPT
                          !.capture.regions = calls[i].after.capture.regions]
              [] calls[i].cmd = "update_ocr_config" ->
                   /\ calls[i].after =
                         [calls[i].before EXCEPT
                            !.min_overall_confidence = calls[i].after.min_overall_confidence,
                            !.save_debug_images = calls[i].after.save_debug_images]
                   /\ ~calls[i].arg.min_confidence.some =>
                         calls[i].after.min_overall_confidence =
                             calls[i].before.min_overall_confidence
                   /\ calls[i].after.save_debug_images =
                         (IF calls[i].arg.save_debug.some THEN calls[i].arg.save_debug.v
                          ELSE calls[i].before.save_debug_images)
              [] OTHER -> calls[i].after = calls[i].before
    /\ \A i \in ReturnedCalls("set_capture_regions") :
          ReturnedWriters(LayoutWriters) = {i} => config.capture.regions = calls[i].arg
    /\ \A i \in ReturnedThresholdUpdates :
          ReturnedThresholdUpdates = {i} =>
              config.min_overall_confidence = clamp(calls[i].arg.min_confidence.v, 0, 1000)
    /\ config.capture.screen_width = OcrState_new.capture.screen_width
    /\ config.capture.screen_height = OcrState_new.capture.screen_height
    /\ config.preprocess = OcrState_new.preprocess
    /\ config.recognize = OcrState_new.recognize

\* The shared configuration changes only in the step in which a set, reset or update
\* call returns.
OnlyWritersWrite ==
    [][config' # config =>
         \E i \in 1..Len(calls) :
             /\ calls[i].cmd \in LayoutWriters \cup {"update_ocr_config"}
             /\ calls[i].pc = "locked" /\ calls'[i].pc = "returned"]_vars

SetAndUpdateBothKept ==
    \E i \in ReturnedCalls("set_capture_regions") :
    \E j \in ReturnedCalls("update_ocr_config") :
        /\ Len(calls[i].arg) = 2
        /\ calls[j].arg = [min_confidence |-> Some(750), save_debug |-> Some(TRUE)]
        /\ config.capture.regions = calls[i].arg
        /\ config.min_overall_confidence = 750
        /\ config.save_debug_images

----------------------------------------------------------------------------
(* Claims about snapshots and about the progress of the commands *)

LayoutInfos(cfg) ==
    { CaptureRegionInfo_from(cfg.capture.regions[k]) : k \in 1..Len(cfg.capture.regions) }

\* C28: a detection or calibration run works on the copy of the shared configuration
\* it took under the lock: set, reset and update calls that come between do not change
\* its region list, its thresholds or its result, and the region of every card it
\* detects belongs to the layout that was active when the copy was taken.
C28_RunsOnSnapshot ==
    \A i \in 1..Len(calls) :
        /\ (calls[i].pc = "capturing"
              /\ calls[i].cmd \in {"detect_cards_on_screen", "calibrate_ocr_regions"}) =>
               calls[i].snapshot = calls[i].before
        /\ (calls[i].pc = "returned" /\ calls[i].cmd = "detect_cards_on_screen") =>
              /\ calls[i].snapshot = calls[i].before
              /\ calls[i].result =
                     detect_cards_on_screen(db, calls[i].before, screens, capture_area_ok,
                                            overflow_checks, fuzzy, ocr_engine).response
              /\ \A k \in 1..Len(calls[i].result.body.details) :
                     calls[i].result.body.details[k].region \in LayoutInfos(calls[i].before)
        /\ (calls[i].pc = "returned" /\ calls[i].cmd = "calibrate_ocr_regions") =>
              /\ calls[i].snapshot = calls[i].before
              /\ calls[i].result =
                     calibrate_ocr_regions(calls[i].before, screens, capture_area_ok,
                                           overflow_checks)

DetectionAcrossASet ==
    \E i \in ReturnedCalls("detect_cards_on_screen") :
    \E j \in ReturnedCalls("set_capture_regions") :
        /\ Len(calls[i].result.body.details) = 4
        /\ calls[j].before = calls[i].before
        /\ Len(config.capture.regions) = 2
        /\ calls[i].result.body.details[4].region \notin LayoutInfos(config)

\* C26: every command that takes the configuration lock releases it on every exit
\* path and none waits for the lock while holding it, so under fair scheduling every
\* interleaving of commands is free of deadlock and every invoked command eventually
\* returns.
C26_EveryCallReturns ==
    \A i \in 1..MaxCalls :
        (Len(calls) >= i) ~> (Len(calls) >= i /\ calls[i].pc = "returned")

\* What holds: the lock is always released again, and every invoked command
\* eventually returns or has panicked, which it does only past its unlock.
LockAlwaysReleased == (lock # 0) ~> (lock = 0)

EveryCallEnds ==
    \A i \in 1..MaxCalls :
        (Len(calls) >= i) ~> (Len(calls) >= i /\ calls[i].pc \in {"returned", "panicked"})

PanicsWithoutTheLock ==
    \A i \in 1..Len(calls) : calls[i].pc = "panicked" => lock # i

----------------------------------------------------------------------------
(* The stub backend: ocr/mock.rs, selected by `#[cfg(not(feature = "ocr"))]` *)
(* in ocr/mod.rs.  OcrPipeline, detect_cards and calibrate_regions are the   *)
(* code of ocr/mod.rs in both builds; what differs is what they call.        *)

\* a capture backend that delivers the region asked for
mock_capture_region_captured(r) == Image(r.width, r.height)

\* mock::capture_region: Err(CaptureFailed("OCR feature not enabled")), the
\* region is not looked at
mock_capture_region(r) == CaptureErr("CaptureFailed")

\* mock::capture_multiple_regions: `regions.iter().map(|_| Err(CaptureFailed(..)))`
mock_capture_multiple_regions(regs) ==
    [status |-> "returned", results |-> [i \in 1..Len(regs) |-> CaptureErr("CaptureFailed")]]

\* mock::get_primary_screen_dimensions: Ok((1920, 1080))
mock_get_primary_screen_dimensions ==
    [ok |-> TRUE, err |-> "", width |-> 1920, height |-> 1080]

\* mock::CaptureConfig::capture_all: `vec![]`, whatever the regions are
mock_capture_all(capture) == <<>>

\* mock::preprocess_for_ocr: EmptyImage for an image without pixels, else the
\* grayscale conversion
mock_preprocess_for_ocr(img) ==
    IF img.width = U32Zero \/ img.height = U32Zero
    THEN [ok |-> FALSE, err |-> "EmptyImage"]
    ELSE [ok |-> TRUE, err |-> ""]

\* mock::RecognitionPipeline::process: Ok(None)
mock_process(gray) == [ok |-> TRUE, err |-> "", found |-> NoMatch]

\* One turn of the loop of detect_cards, on the stub's preprocess and process.
mock_detect_slot(acc, pl, capture_result, i) ==
    IF capture_result.tag # "Image" THEN acc
    ELSE IF ~mock_preprocess_for_ocr(capture_result).ok THEN acc
    ELSE LET processed == mock_process(capture_result) IN
         IF processed.ok /\ processed.found.some
            /\ processed.found.m.overall_confidence >= pl.options.min_overall_confidence
         THEN [ detected_cards |->
                    Append(acc.detected_cards,
                           DetectedCard(processed.found.m,
                                        region_of_slot(pl.options.capture.regions, i))),
                slots |-> Append(acc.slots, i) ]
         ELSE acc

RECURSIVE mock_detect_loop(_, _, _, _)
mock_detect_loop(acc, pl, capture_results, i) ==
    IF i > Len(capture_results) THEN acc
    ELSE mock_detect_loop(mock_detect_slot(acc, pl, capture_results[i], i), pl,
                          capture_results, i + 1)

\* OcrPipeline::detect_cards in the stub build
mock_detect_cards(pl) ==
    LET capture_results == mock_capture_all(pl.options.capture)
        acc == mock_detect_loop([detected_cards |-> <<>>, slots |-> <<>>], pl,
                                capture_results, 1)
    IN  [ status |-> "returned", capture_results |-> capture_results, slots |-> acc.slots,
          result |-> CardDetectionResult_new(acc.detected_cards) ]

\* The counting loop of calibrate_regions on the stub's capture_region.
RECURSIVE mock_count_captures(_, _, _)
mock_count_captures(acc, regs, k) ==
    IF k > Len(regs) THEN acc
    ELSE IF mock_capture_region(regs[k]).tag = "Image"
    THEN mock_count_captures([acc EXCEPT !.successful = @ + 1], regs, k + 1)
    ELSE mock_count_captures([acc EXCEPT !.failed = @ + 1], regs, k + 1)

\* calibrate_regions in the stub build
mock_calibrate_regions(options) ==
    LET dims == mock_get_primary_screen_dimensions
        regs == options.capture.regions
        counted == mock_count_captures([successful |-> 0, failed |-> 0], regs, 1)
    IN  IF ~dims.ok THEN [status |-> "Err", err |-> dims.err, report |-> NullReport]
        ELSE [ status |-> "Ok", err |-> "",
               report |-> CalibrationReport(<<dims.width, dims.height>>, Len(regs),
                                            counted.successful, counted.failed,
                                            get_default_card_regions(dims.width,
                                                                     dims.height)) ]

\* ---- the stub build ---------------------------------------------------------
\* The display, the capture backend and the build profile are whatever they
\* are; the layout is any list of regions, the valid and the invalid ones.
InitStub ==
    /\ screens \in CalibrationScreens
    /\ capture_area_ok = [i \in 1..MaxRegions |-> TRUE]
    /\ overflow_checks \in BOOLEAN
    /\ IdleOne
    /\ regions \in SeqsUpTo(RegionPool, MaxRegions)
    /\ results = NotCaptured
    /\ IdleMatch /\ IdleFusion
    /\ config = CardDetectionOptions(regions, DefaultMinConfidence, DefaultMinMatchScore,
                                     DefaultMinOverallConfidence)
    /\ ocr_engine = <<>>
    /\ db = NotRead
    /\ pipeline = NoPipeline
    /\ run = NotRun
    /\ response = NoResponse
    /\ IdleRest
    /\ pc = "ready"

stubFrame == <<envVars, oneVars, regions, fuzzy, min_score, ocr_text, best_match, fusionVars, config, ocr_engine, db, response, calibration, pureVars, cmdVars, imageVars, pc>>

CallStubCaptureMultipleRegions ==
    /\ results = NotCaptured
    /\ results' = mock_capture_multiple_regions(regions)
    /\ UNCHANGED <<stubFrame, card_names, pipeline, run, report, screen_size>>

CallStubGetPrimaryScreenDimensions ==
    /\ screen_size = NoDimensions
    /\ screen_size' = mock_get_primary_screen_dimensions
    /\ UNCHANGED <<stubFrame, results, card_names, pipeline, run, report>>

\* OcrPipeline::new on a copy of the configuration, with an empty corpus or not
CallStubOcrPipelineNew ==
    /\ pipeline.err = "none"
    /\ \E names \in {<<>>, Corpus} :
          /\ card_names' = names
          /\ pipeline' = OcrPipeline_new(names, config)
    /\ UNCHANGED <<stubFrame, results, run, report, screen_size>>

\* pipeline.detect_cards(), on a pipeline that was constructed
CallStubDetectCards ==
    /\ pipeline.ok
    /\ run = NotRun
    /\ run' = mock_detect_cards(pipeline)
    /\ UNCHANGED <<stubFrame, results, card_names, pipeline, report, screen_size>>

CallStubCalibrateRegions ==
    /\ report = NotCalibrated
    /\ report' = mock_calibrate_regions(config)
    /\ UNCHANGED <<stubFrame, results, card_names, pipeline, run, screen_size>>

NextStub ==
    \/ CallStubCaptureMultipleRegions
    \/ CallStubGetPrimaryScreenDimensions
    \/ CallStubOcrPipelineNew
    \/ CallStubDetectCards
    \/ CallStubCalibrateRegions

SpecStub == InitStub /\ [][NextStub]_vars

====
